---- MODULE Spec2Model ----
(***************************************************************************)
(* Account directory and smart-switch algorithm of @mcp-z/oauth.           *)
(*                                                                         *)
(* The key-value store is a function from key strings to values; a key     *)
(* outside its domain reads as undefined.  Every store call of the         *)
(* asynchronous directory operations is one step, so the states between    *)
(* two store calls of one operation are states of the model.               *)
(*                                                                         *)
(* Account identifiers and services are non-empty strings without the      *)
(* delimiter ':' (the identifiers the key scheme accepts); SpecKey alone   *)
(* passes empty strings and strings with ':' to the key codec.             *)
(*                                                                         *)
(* Spec, SpecDir, SpecTools and SpecFail run one call at a time; SpecConc  *)
(* runs the calls of two callers, which give way at every awaited store    *)
(* call.                                                                   *)
(***************************************************************************)
EXTENDS Integers, Sequences, FiniteSets, TLC

VARIABLES
  store,        \* Keyv store: key string -> value
  pc,           \* position of the running call ("idle", "done" or a label)
  call,         \* the running (or last completed) top-level call and its arguments
  loc,          \* local variables of the running call
  pre,          \* history: the store when the top-level call started (in SpecConc:
                \* started or last resumed)
  result,       \* outcome of the last completed top-level call
  hist,         \* history of the running call: reauthCalls (invocations of
                \* auth.getAccessToken), flowEmail (the account the flow authorized),
                \* addCalls (calls of addAccount made by the handler), failedAt (the
                \* store call that rejected), read (the list addAccount read)
  misuse,       \* history: setActiveAccount was called with an account that is not linked
  again,        \* history: the call repeats the addAccount call completed just before it
  parked,       \* the call of the other caller, suspended at an await or returned
  lastWriter,   \* history: account of the call that last wrote a linked list
  codec,        \* the key codec under test: its input and its results
  switched      \* history: an account-switch call has begun

vars == <<store, pc, call, loc, pre, result, hist, misuse, again, parked, lastWriter, codec,
          switched>>

----------------------------------------------------------------------------
(* Bounds *)

\* new Date() yields one of the instants 1..MaxTime
MaxTime == 2

Times == 1..MaxTime

Services == {"gmail", "drive"}

\* the service createLoopback is configured with
ToolService == "gmail"

Accounts == {"a@x.com", "b@x.com", "c@x.com"}

\* accounts the tools, the authorization flow and the token store are exercised with
ToolAccounts == {"a@x.com", "b@x.com"}

\* an alias may be any string, also the identifier of an account
Aliases == {"work", "b@x.com"}

Tokens == {"tok1"}

\* JavaScript undefined, for string-valued reads
Undefined == "<undefined>"

NoAlias == Undefined

\* values that are not strings: undefined, null, a number
NonStrings == {Undefined, "<null>", "<number>"}

\* typeof value === 'string'
IsString(v) == v \notin NonStrings

NoInfo == [present |-> FALSE, email |-> Undefined, alias |-> NoAlias, addedAt |-> 0]

\* !v for a string-valued read
Falsy(v) == v = Undefined \/ v = ""

----------------------------------------------------------------------------
(* Key codec: key-utils.ts *)

HasColon(str) == \E i \in 1..Len(str) : SubSeq(str, i, i) = ":"

\* a validation that looks at the first parameter only
validateKeyParamsFirstOnly(params) == IsString(params[1]) /\ ~HasColon(params[1])

\* validateKeyParams does not throw
validateKeyParams(params) ==
  \A i \in 1..Len(params) : IsString(params[i]) /\ ~HasColon(params[i])

\* an account key without the account: the key of the service and the type
createAccountKeyPerService(type, accountId, service) == service \o ":" \o type

createAccountKey(type, accountId, service) ==
  accountId \o ":" \o service \o ":" \o type

createServiceKey(type, service) == service \o ":" \o type

----------------------------------------------------------------------------
(* Keyv store *)

EmptyStore == << >>

Has(st, k) == k \in DOMAIN st

StoreSet(st, k, v) == [x \in (DOMAIN st) \cup {k} |-> IF x = k THEN v ELSE st[x]]

StoreDelete(st, k) == [x \in (DOMAIN st) \ {k} |-> st[x]]

----------------------------------------------------------------------------
(* Reads of account-utils.ts *)

getLinkedAccounts(st, service) ==
  LET key == createServiceKey("linked", service)
  IN  IF Has(st, key) THEN st[key] ELSE << >>

getActiveAccount(st, service) ==
  LET key == createServiceKey("active", service)
  IN  IF Has(st, key) THEN st[key] ELSE Undefined

getAccountInfo(st, accountId, service) ==
  LET key == createAccountKey("metadata", accountId, service)
  IN  IF Has(st, key)
        THEN [present |-> TRUE, email |-> st[key].email,
              alias |-> st[key].alias, addedAt |-> st[key].addedAt]
        ELSE NoInfo

getToken(st, accountId, service) ==
  LET key == createAccountKey("token", accountId, service)
  IN  IF Has(st, key) THEN st[key] ELSE Undefined

\* Array.prototype.includes
Includes(seq, x) == \E i \in 1..Len(seq) : seq[i] = x

\* a filter that returns the remaining identifiers in reverse order
FilterOutReversed(seq, x) ==
  LET kept == SelectSeq(seq, LAMBDA y : y # x)
  IN  [i \in 1..Len(kept) |-> kept[Len(kept) + 1 - i]]

\* Array.prototype.filter((id) => id !== x)
RECURSIVE FilterOut(_, _)
FilterOut(seq, x) ==
  IF seq = << >> THEN << >>
  ELSE IF Head(seq) = x THEN FilterOut(Tail(seq), x)
       ELSE <<Head(seq)>> \o FilterOut(Tail(seq), x)

----------------------------------------------------------------------------
(* Call frames *)

NoCall == [name |-> "none", service |-> "", accountId |-> "", ref |-> Undefined,
           alias |-> NoAlias, iterable |-> TRUE]

NoLoc == [service |-> "", accountId |-> "", linked |-> << >>, filtered |-> << >>,
          existing |-> << >>, active |-> Undefined, found |-> Undefined,
          email |-> Undefined, isNew |-> FALSE, info |-> NoInfo, i |-> 0,
          removingActive |-> FALSE, remaining |-> {}, accountIds |-> << >>,
          token |-> Undefined, entries |-> << >>, ret |-> "done"]

NoResult == [type |-> "none", email |-> Undefined, isNew |-> FALSE,
             totalAccounts |-> 0, message |-> "", removed |-> Undefined,
             remainingAccounts |-> 0, newActiveAccount |-> Undefined,
             accountIds |-> << >>, accounts |-> << >>, alias |-> Undefined,
             sessionExpiresIn |-> Undefined]

NoHist == [reauthCalls |-> 0, flowEmail |-> Undefined, addCalls |-> 0,
           failedAt |-> "none", read |-> << >>, now |-> 0]

\* parseTokenKey returns undefined
NoParse == [defined |-> FALSE, accountId |-> "", service |-> ""]

\* no earlier call of a key constructor
NoKeyCall == [fn |-> "", type |-> "", accountId |-> "", service |-> "", key |-> ""]

NoCodec == [phase |-> "none", fn |-> "", type |-> "", accountId |-> "", service |-> "", key |-> "",
            parsed |-> NoParse, prev |-> NoKeyCall]

Quiescent == pc \in {"idle", "done"}

\* a top-level call starts: the caller runs one call at a time
\* a call that has not started
IdleFrame == [pc |-> "idle", call |-> NoCall, loc |-> NoLoc, result |-> NoResult,
              hist |-> NoHist, again |-> FALSE]

Begin(c) ==
  /\ Quiescent
  /\ call' = c
  /\ pre' = store
  /\ hist' = NoHist
  /\ lastWriter' = (IF parked.pc \in {"idle", "done"} THEN Undefined ELSE lastWriter)
  /\ switched' = (switched \/ c.name = "account-switch")
  /\ UNCHANGED <<parked, codec>>

Init ==
  /\ store = EmptyStore
  /\ pc = "idle"
  /\ call = NoCall
  /\ loc = NoLoc
  /\ pre = EmptyStore
  /\ result = NoResult
  /\ hist = NoHist
  /\ misuse = FALSE
  /\ again = FALSE
  /\ parked = IdleFrame
  /\ lastWriter = Undefined
  /\ codec = NoCodec
  /\ switched = FALSE

----------------------------------------------------------------------------
(* Returning and throwing *)

OkResult == [NoResult EXCEPT !.type = "ok"]

ErrorResult(msg) == [NoResult EXCEPT !.type = "error", !.message = msg]

\* the running function returns with locals l: to its caller, or out of the call
Return(l) ==
  IF l.ret = "done"
    THEN /\ pc' = "done"
         /\ loc' = NoLoc
         /\ result' = OkResult
    ELSE /\ pc' = l.ret
         /\ loc' = [l EXCEPT !.ret = "done"]
         /\ UNCHANGED result

\* an error leaves the call (the tool handlers rethrow it as McpError)
Throw(msg) ==
  /\ pc' = "done"
  /\ loc' = NoLoc
  /\ result' = ErrorResult(msg)

----------------------------------------------------------------------------
(* account-utils.ts: setActiveAccount *)

Null == "<null>"

\* a setActiveAccount that writes nothing
setActiveAccountIgnored(st, service, accountId) == st

\* a setActiveAccount that writes the pointer only for a linked account
setActiveAccountIfLinked(st, service, accountId) ==
  LET key == createServiceKey("active", service)
  IN  IF accountId = Null THEN StoreDelete(st, key)
      ELSE IF Includes(getLinkedAccounts(st, service), accountId)
             THEN StoreSet(st, key, accountId)
             ELSE st

setActiveAccount(st, service, accountId) ==
  LET key == createServiceKey("active", service)
  IN  IF accountId = Null THEN StoreDelete(st, key) ELSE StoreSet(st, key, accountId)

CallSetActiveAccount(s, a) ==
  /\ Begin([NoCall EXCEPT !.name = "setActiveAccount", !.service = s, !.accountId = a])
  /\ store' = setActiveAccount(store, s, a)
  /\ misuse' = (misuse \/ (a # Null /\ ~Includes(getLinkedAccounts(store, s), a)))
  /\ again' = FALSE
  /\ pc' = "done"
  /\ loc' = NoLoc
  /\ result' = [NoResult EXCEPT !.type = "ok"]

----------------------------------------------------------------------------
(* account-utils.ts: addAccount *)

CallAddAccount(s, a) ==
  /\ Begin([NoCall EXCEPT !.name = "addAccount", !.service = s, !.accountId = a])
  /\ again' = (/\ pc = "done"
               /\ call.name = "addAccount"
               /\ call.service = s
               /\ call.accountId = a
               /\ result.type = "ok")
  /\ pc' = "add_getLinked"
  /\ loc' = [NoLoc EXCEPT !.service = s, !.accountId = a]
  /\ result' = NoResult
  /\ UNCHANGED <<store, misuse>>

\* addAccount without the includes() test: the identifier is always pushed
AddGetLinkedAlwaysPush ==
  /\ pc = "add_getLinked"
  /\ loc' = [loc EXCEPT !.linked = getLinkedAccounts(store, loc.service)]
  /\ hist' = [hist EXCEPT !.read = getLinkedAccounts(store, loc.service)]
  /\ pc' = "add_setLinked"
  /\ UNCHANGED <<store, call, pre, result, misuse, again>>
  /\ UNCHANGED <<parked, lastWriter, codec, switched>>

\* const linked = await getLinkedAccounts(store, { service })
AddGetLinked ==
  /\ pc = "add_getLinked"
  /\ IF ~validateKeyParams(<<loc.service>>)
       THEN /\ Throw("invalid key parameter")
            /\ UNCHANGED hist
       ELSE LET linked == getLinkedAccounts(store, loc.service)
            IN  /\ loc' = [loc EXCEPT !.linked = linked]
                /\ hist' = [hist EXCEPT !.read = linked]
                /\ pc' = IF ~Includes(linked, loc.accountId)
                           THEN "add_setLinked" ELSE "add_getActive"
                /\ UNCHANGED result
  /\ UNCHANGED <<store, call, pre, misuse, again>>
  /\ UNCHANGED <<parked, lastWriter, codec, switched>>

\* an addAccount that pushes onto the list stored now, not onto the list it read
AddSetLinkedOntoStored ==
  /\ pc = "add_setLinked"
  /\ LET linked == Append(getLinkedAccounts(store, loc.service), loc.accountId)
     IN  /\ store' = StoreSet(store, createServiceKey("linked", loc.service), linked)
         /\ loc' = [loc EXCEPT !.linked = linked]
  /\ pc' = "add_getActive"
  /\ UNCHANGED <<call, pre, result, hist, misuse, again>>
  /\ lastWriter' = loc.accountId
  /\ UNCHANGED <<parked, codec, switched>>

\* a store that keeps the list of the first writer: a write of a list read before
\* the stored list changed is dropped
AddSetLinkedKeepsFirst ==
  /\ pc = "add_setLinked"
  /\ LET linked == Append(loc.linked, loc.accountId)
     IN  /\ store' = IF getLinkedAccounts(store, loc.service) = loc.linked
                        THEN StoreSet(store, createServiceKey("linked", loc.service), linked)
                        ELSE store
         /\ loc' = [loc EXCEPT !.linked = linked]
  /\ pc' = "add_getActive"
  /\ UNCHANGED <<call, pre, result, hist, misuse, again>>
  /\ lastWriter' = loc.accountId
  /\ UNCHANGED <<parked, codec, switched>>

\* linked.push(accountId); await store.set(linkedKey, linked)
AddSetLinked ==
  /\ pc = "add_setLinked"
  /\ LET linked == Append(loc.linked, loc.accountId)
     IN  /\ store' = StoreSet(store, createServiceKey("linked", loc.service), linked)
         /\ loc' = [loc EXCEPT !.linked = linked]
  /\ pc' = "add_getActive"
  /\ UNCHANGED <<call, pre, result, hist, misuse, again>>
  /\ lastWriter' = loc.accountId
  /\ UNCHANGED <<parked, codec, switched>>

\* addAccount without the !active test: the pointer is always written
AddGetActiveAlwaysSet ==
  /\ pc = "add_getActive"
  /\ pc' = "add_setActive"
  /\ loc' = [loc EXCEPT !.active = getActiveAccount(store, loc.service)]
  /\ UNCHANGED <<store, call, pre, result, hist, misuse, again>>
  /\ UNCHANGED <<parked, lastWriter, codec, switched>>

\* const active = await getActiveAccount(store, { service })
AddGetActive ==
  /\ pc = "add_getActive"
  /\ LET active == getActiveAccount(store, loc.service)
     IN  IF Falsy(active)
           THEN /\ pc' = "add_setActive"
                /\ loc' = [loc EXCEPT !.active = active]
                /\ UNCHANGED result
           ELSE Return([loc EXCEPT !.active = active])
  /\ UNCHANGED <<store, call, pre, hist, misuse, again>>
  /\ UNCHANGED <<parked, lastWriter, codec, switched>>

\* await setActiveAccount(store, params)
AddSetActive ==
  /\ pc = "add_setActive"
  /\ store' = setActiveAccount(store, loc.service, loc.accountId)
  /\ Return(loc)
  /\ UNCHANGED <<call, pre, hist, misuse, again>>
  /\ UNCHANGED <<parked, lastWriter, codec, switched>>

----------------------------------------------------------------------------
(* account-utils.ts: removeAccount *)

CallRemoveAccount(s, a) ==
  /\ Begin([NoCall EXCEPT !.name = "removeAccount", !.service = s, !.accountId = a])
  /\ again' = FALSE
  /\ pc' = "rm_delToken"
  /\ loc' = [NoLoc EXCEPT !.service = s, !.accountId = a]
  /\ result' = NoResult
  /\ UNCHANGED <<store, misuse>>

\* removeAccount that deletes the credential of the account under every service
RemoveDeleteTokenEveryService ==
  /\ pc = "rm_delToken"
  /\ IF ~validateKeyParams(<<loc.service, loc.accountId>>)
       THEN /\ Throw("invalid key parameter")
            /\ UNCHANGED store
       ELSE /\ store' = [k \in DOMAIN store
                               \ {createAccountKey("token", loc.accountId, s) : s \in Services}
                          |-> store[k]]
            /\ pc' = "rm_delInfo"
            /\ UNCHANGED <<loc, result>>
  /\ UNCHANGED <<call, pre, hist, misuse, again>>
  /\ UNCHANGED <<parked, lastWriter, codec, switched>>

\* await store.delete(createAccountKey('token', params))
RemoveDeleteToken ==
  /\ pc = "rm_delToken"
  /\ IF ~validateKeyParams(<<loc.service, loc.accountId>>)
       THEN /\ Throw("invalid key parameter")
            /\ UNCHANGED store
       ELSE /\ store' = StoreDelete(store, createAccountKey("token", loc.accountId, loc.service))
            /\ pc' = "rm_delInfo"
            /\ UNCHANGED <<loc, result>>
  /\ UNCHANGED <<call, pre, hist, misuse, again>>
  /\ UNCHANGED <<parked, lastWriter, codec, switched>>

\* removeAccount that leaves the metadata record in place
RemoveDeleteInfoSkipped ==
  /\ pc = "rm_delInfo"
  /\ pc' = "rm_getLinked"
  /\ UNCHANGED <<store, call, loc, pre, result, hist, misuse, again>>
  /\ UNCHANGED <<parked, lastWriter, codec, switched>>

\* await store.delete(createAccountKey('metadata', params))
RemoveDeleteInfo ==
  /\ pc = "rm_delInfo"
  /\ store' = StoreDelete(store, createAccountKey("metadata", loc.accountId, loc.service))
  /\ pc' = "rm_getLinked"
  /\ UNCHANGED <<call, loc, pre, result, hist, misuse, again>>
  /\ UNCHANGED <<parked, lastWriter, codec, switched>>

\* const linked = await getLinkedAccounts(...); const filtered = linked.filter(...)
RemoveGetLinked ==
  /\ pc = "rm_getLinked"
  /\ LET linked == getLinkedAccounts(store, loc.service)
     IN  loc' = [loc EXCEPT !.linked = linked,
                            !.filtered = FilterOut(linked, loc.accountId)]
  /\ pc' = "rm_setLinked"
  /\ UNCHANGED <<store, call, pre, result, hist, misuse, again>>
  /\ UNCHANGED <<parked, lastWriter, codec, switched>>

\* await store.set(linkedKey, filtered)
RemoveSetLinked ==
  /\ pc = "rm_setLinked"
  /\ store' = StoreSet(store, createServiceKey("linked", loc.service), loc.filtered)
  /\ pc' = "rm_getActive"
  /\ UNCHANGED <<call, loc, pre, result, hist, misuse, again>>
  /\ lastWriter' = loc.accountId
  /\ UNCHANGED <<parked, codec, switched>>

\* the last remaining account instead of the first
NewActiveLast(filtered) == IF filtered = << >> THEN Undefined ELSE filtered[Len(filtered)]

\* filtered[0]
NewActive(filtered) == IF filtered = << >> THEN Undefined ELSE filtered[1]

\* removeAccount that never re-points the pointer
RemoveGetActiveNoRepoint ==
  /\ pc = "rm_getActive"
  /\ Return([loc EXCEPT !.active = getActiveAccount(store, loc.service)])
  /\ UNCHANGED <<store, call, pre, hist, misuse, again>>
  /\ UNCHANGED <<parked, lastWriter, codec, switched>>

\* const active = await getActiveAccount(...); if (active === params.accountId) ...
RemoveGetActive ==
  /\ pc = "rm_getActive"
  /\ LET active == getActiveAccount(store, loc.service)
         l == [loc EXCEPT !.active = active]
     IN  IF active = loc.accountId
           THEN /\ pc' = IF ~Falsy(NewActive(loc.filtered))
                           THEN "rm_setActive" ELSE "rm_delActive"
                /\ loc' = l
                /\ UNCHANGED result
           ELSE Return(l)
  /\ UNCHANGED <<store, call, pre, hist, misuse, again>>
  /\ UNCHANGED <<parked, lastWriter, codec, switched>>

\* await setActiveAccount(store, { service, accountId: newActive })
RemoveSetActive ==
  /\ pc = "rm_setActive"
  /\ store' = setActiveAccount(store, loc.service, NewActive(loc.filtered))
  /\ Return(loc)
  /\ UNCHANGED <<call, pre, hist, misuse, again>>
  /\ UNCHANGED <<parked, lastWriter, codec, switched>>

\* await store.delete(activeKey)
RemoveDeleteActive ==
  /\ pc = "rm_delActive"
  /\ store' = StoreDelete(store, createServiceKey("active", loc.service))
  /\ Return(loc)
  /\ UNCHANGED <<call, pre, hist, misuse, again>>
  /\ UNCHANGED <<parked, lastWriter, codec, switched>>

----------------------------------------------------------------------------
(* The directory operations alone, one call at a time *)

AddAccountStep ==
  \/ AddGetLinked
  \/ AddSetLinked
  \/ AddGetActive
  \/ AddSetActive

RemoveAccountStep ==
  \/ RemoveDeleteToken
  \/ RemoveDeleteInfo
  \/ RemoveGetLinked
  \/ RemoveSetLinked
  \/ RemoveGetActive
  \/ RemoveSetActive
  \/ RemoveDeleteActive

NextDir ==
  \/ \E s \in Services, a \in Accounts : CallAddAccount(s, a)
  \/ \E s \in Services, a \in Accounts : CallRemoveAccount(s, a)
  \/ \E s \in Services, a \in Accounts \cup {Null} : CallSetActiveAccount(s, a)
  \/ AddAccountStep
  \/ RemoveAccountStep

SpecDir == Init /\ [][NextDir]_vars

----------------------------------------------------------------------------
(* account-utils.ts: token and metadata writes *)

\* a setToken that stores the credential for every account of the service
setTokenForAll(st, accountId, service, token) ==
  LET keys == {createAccountKey("token", a, service) : a \in ToolAccounts \cup {accountId}}
  IN  [k \in DOMAIN st \cup keys |-> IF k \in keys THEN token ELSE st[k]]

setToken(st, accountId, service, token) ==
  StoreSet(st, createAccountKey("token", accountId, service), token)

setAccountInfo(st, accountId, service, info) ==
  StoreSet(st, createAccountKey("metadata", accountId, service), info)

\* an AccountInfo value; alias = NoAlias stands for a record without the alias property
AccountInfo(email, alias, addedAt) ==
  [email |-> email, alias |-> alias, addedAt |-> addedAt]

CallSetToken(s, a, t) ==
  /\ Begin([NoCall EXCEPT !.name = "setToken", !.service = s, !.accountId = a])
  /\ store' = setToken(store, a, s, t)
  /\ pc' = "done"
  /\ loc' = NoLoc
  /\ result' = OkResult
  /\ again' = FALSE
  /\ UNCHANGED misuse

----------------------------------------------------------------------------
(* shared-utils.ts: findAccountByEmailOrAlias(store, service, call.ref) *)

\* const linkedAccountIds = await getLinkedAccounts(...); exact match first
FindGetLinked ==
  /\ pc = "find_getLinked"
  /\ LET linked == getLinkedAccounts(store, loc.service)
         l == [loc EXCEPT !.linked = linked]
     IN  IF Includes(linked, call.ref)
           THEN Return([l EXCEPT !.found = call.ref])
           ELSE IF linked = << >>
                  THEN Return([l EXCEPT !.found = Null])
                  ELSE /\ pc' = "find_getInfo"
                       /\ loc' = [l EXCEPT !.i = 1]
                       /\ UNCHANGED result
  /\ UNCHANGED <<store, call, pre, hist, misuse, again>>
  /\ UNCHANGED <<parked, lastWriter, codec, switched>>

\* the alias scan that never matches
FindGetInfoNoAlias ==
  /\ pc = "find_getInfo"
  /\ IF loc.i = Len(loc.linked)
       THEN Return([loc EXCEPT !.found = Null])
       ELSE /\ loc' = [loc EXCEPT !.i = loc.i + 1]
            /\ UNCHANGED <<pc, result>>
  /\ UNCHANGED <<store, call, pre, hist, misuse, again>>
  /\ UNCHANGED <<parked, lastWriter, codec, switched>>

\* an alias scan that starts over when it reaches the end of the list
FindGetInfoRescans ==
  /\ pc = "find_getInfo"
  /\ LET accountId == loc.linked[loc.i]
         info == getAccountInfo(store, accountId, loc.service)
     IN  IF info.present /\ info.alias = call.ref
           THEN Return([loc EXCEPT !.found = accountId])
           ELSE /\ loc' = [loc EXCEPT !.i = IF loc.i = Len(loc.linked) THEN 1 ELSE loc.i + 1]
                /\ UNCHANGED <<pc, result>>
  /\ UNCHANGED <<store, call, pre, hist, misuse, again>>
  /\ UNCHANGED <<parked, lastWriter, codec, switched>>

\* for (const accountId of linkedAccountIds): info?.alias === emailOrAlias
FindGetInfo ==
  /\ pc = "find_getInfo"
  /\ LET accountId == loc.linked[loc.i]
         info == getAccountInfo(store, accountId, loc.service)
     IN  IF info.present /\ info.alias = call.ref
           THEN Return([loc EXCEPT !.found = accountId])
           ELSE IF loc.i = Len(loc.linked)
                  THEN Return([loc EXCEPT !.found = Null])
                  ELSE /\ loc' = [loc EXCEPT !.i = loc.i + 1]
                       /\ UNCHANGED <<pc, result>>
  /\ UNCHANGED <<store, call, pre, hist, misuse, again>>
  /\ UNCHANGED <<parked, lastWriter, codec, switched>>

FindStep ==
  \/ FindGetLinked
  \/ FindGetInfo

----------------------------------------------------------------------------
(* loopback.ts: the account-switch handler *)

SwitchResult(email, isNew, total) ==
  [NoResult EXCEPT !.type = "success", !.email = email, !.isNew = isNew,
                   !.totalAccounts = total]

\* the handler returns its result
Finish(r) ==
  /\ pc' = "done"
  /\ loc' = NoLoc
  /\ result' = r

CallAccountSwitch(ref, alias) ==
  /\ Begin([NoCall EXCEPT !.name = "account-switch", !.service = ToolService,
                          !.ref = ref, !.alias = alias])
  /\ pc' = "sw_getLinked"
  /\ loc' = [NoLoc EXCEPT !.service = ToolService]
  /\ result' = NoResult
  /\ again' = FALSE
  /\ UNCHANGED <<store, misuse>>

\* const existingAccounts = await getLinkedAccounts(store, { service }); if (params.email)
SwitchGetLinked ==
  /\ pc = "sw_getLinked"
  /\ LET l == [loc EXCEPT !.existing = getLinkedAccounts(store, loc.service)]
     IN  IF ~Falsy(call.ref)
           THEN /\ pc' = "find_getLinked"
                /\ loc' = [l EXCEPT !.ret = "sw_found"]
           ELSE /\ pc' = "sw_reauth"
                /\ loc' = l
  /\ UNCHANGED <<store, call, pre, result, hist, misuse, again>>
  /\ UNCHANGED <<parked, lastWriter, codec, switched>>

\* if (accountId): await setActiveAccount(store, { service, accountId: email })
SwitchReuse ==
  /\ pc = "sw_found"
  /\ ~Falsy(loc.found) /\ loc.found # Null
  /\ store' = setActiveAccount(store, loc.service, loc.found)
  /\ IF ~Falsy(call.alias)
       THEN /\ pc' = "sw_reuse_getInfo"
            /\ loc' = [loc EXCEPT !.email = loc.found]
            /\ UNCHANGED result
       ELSE Finish(SwitchResult(loc.found, FALSE, Len(loc.existing)))
  /\ UNCHANGED <<call, pre, hist, misuse, again>>
  /\ UNCHANGED <<parked, lastWriter, codec, switched>>

\* a switch that clears the active pointer before it re-authenticates
SwitchNotFoundClearsActive ==
  /\ pc = "sw_found"
  /\ loc.found = Null
  /\ store' = StoreDelete(store, createServiceKey("active", loc.service))
  /\ pc' = "sw_reauth"
  /\ UNCHANGED <<call, loc, pre, result, hist, misuse, again>>
  /\ UNCHANGED <<parked, lastWriter, codec, switched>>

\* the reference resolved to no linked account: fall through to the OAuth flow
SwitchNotFound ==
  /\ pc = "sw_found"
  /\ loc.found = Null
  /\ pc' = "sw_reauth"
  /\ UNCHANGED <<store, call, loc, pre, result, hist, misuse, again>>
  /\ UNCHANGED <<parked, lastWriter, codec, switched>>

\* const existingInfo = await getAccountInfo(store, { accountId: email, service })
SwitchReuseGetInfo ==
  /\ pc = "sw_reuse_getInfo"
  /\ loc' = [loc EXCEPT !.info = getAccountInfo(store, loc.email, loc.service)]
  /\ pc' = "sw_reuse_setInfo"
  /\ UNCHANGED <<store, call, pre, result, hist, misuse, again>>
  /\ UNCHANGED <<parked, lastWriter, codec, switched>>

\* existingInfo?.addedAt ?? new Date().toISOString()
AddedAtOr(info, now) == IF info.present THEN info.addedAt ELSE now

\* instants new Date() can yield where the expression above evaluates it
NowChoices(info) == IF info.present THEN {info.addedAt} ELSE Times

\* an alias update that stamps the record with the current instant
SwitchReuseSetInfoNewDate ==
  /\ pc = "sw_reuse_setInfo"
  /\ \E now \in Times :
       store' = setAccountInfo(store, loc.email, loc.service,
                  AccountInfo(loc.email, call.alias, now))
  /\ Finish(SwitchResult(loc.email, FALSE, Len(loc.existing)))
  /\ UNCHANGED <<call, pre, hist, misuse, again>>
  /\ UNCHANGED <<parked, lastWriter, codec, switched>>

\* await setAccountInfo(store, ..., { email, alias: params.alias, addedAt })
SwitchReuseSetInfo ==
  /\ pc = "sw_reuse_setInfo"
  /\ \E now \in NowChoices(loc.info) :
       store' = setAccountInfo(store, loc.email, loc.service,
                  AccountInfo(loc.email, call.alias, AddedAtOr(loc.info, now)))
  /\ Finish(SwitchResult(loc.email, FALSE, Len(loc.existing)))
  /\ UNCHANGED <<call, pre, hist, misuse, again>>
  /\ UNCHANGED <<parked, lastWriter, codec, switched>>

\* await auth.getAccessToken(`new:${randomUUID()}`) rejects
ReauthRejects ==
  /\ pc = "sw_reauth"
  /\ hist' = [hist EXCEPT !.reauthCalls = @ + 1]
  /\ Throw("authorization failed")
  /\ UNCHANGED <<store, call, pre, misuse, again>>
  /\ UNCHANGED <<parked, lastWriter, codec, switched>>

\* the flow authorizes account e: it stores the credential and makes e active
ReauthResolves(e, t) ==
  /\ pc = "sw_reauth"
  /\ hist' = [hist EXCEPT !.reauthCalls = @ + 1, !.flowEmail = e]
  /\ store' = setActiveAccount(setToken(store, e, loc.service, t), loc.service, e)
  /\ pc' = "sw_getActive"
  /\ UNCHANGED <<call, loc, pre, result, misuse, again>>
  /\ UNCHANGED <<parked, lastWriter, codec, switched>>

\* the flow completes without setting an active account
ReauthSetsNothing ==
  /\ pc = "sw_reauth"
  /\ hist' = [hist EXCEPT !.reauthCalls = @ + 1]
  /\ pc' = "sw_getActive"
  /\ UNCHANGED <<store, call, loc, pre, result, misuse, again>>
  /\ UNCHANGED <<parked, lastWriter, codec, switched>>

\* every authorized account counts as new
IsNewAlways(existing, email) == TRUE

\* isNew = !existingAccounts.includes(email)
IsNew(existing, email) == ~Includes(existing, email)

\* email = await getActiveAccount(...); if (!email) throw; if (isNew) await addAccount(...)
SwitchGetActive ==
  /\ pc = "sw_getActive"
  /\ LET email == getActiveAccount(store, loc.service)
         isNew == IsNew(loc.existing, email)
         l == [loc EXCEPT !.email = email, !.isNew = isNew]
     IN  IF Falsy(email)
           THEN /\ Throw("OAuth flow completed without setting an active account")
                /\ UNCHANGED hist
           ELSE /\ UNCHANGED result
                /\ IF isNew
                     THEN /\ pc' = "add_getLinked"
                          /\ loc' = [l EXCEPT !.accountId = email, !.ret = "sw_getInfo"]
                          /\ hist' = [hist EXCEPT !.addCalls = @ + 1]
                     ELSE /\ pc' = "sw_getInfo"
                          /\ loc' = l
                          /\ UNCHANGED hist
  /\ UNCHANGED <<store, call, pre, misuse, again>>
  /\ UNCHANGED <<parked, lastWriter, codec, switched>>

\* const existingInfo = await getAccountInfo(store, { accountId: email, service })
SwitchGetInfo ==
  /\ pc = "sw_getInfo"
  /\ loc' = [loc EXCEPT !.info = getAccountInfo(store, loc.email, loc.service)]
  /\ pc' = "sw_setInfo"
  /\ UNCHANGED <<store, call, pre, result, hist, misuse, again>>
  /\ UNCHANGED <<parked, lastWriter, codec, switched>>

\* { email, ...(params.alias ? { alias: params.alias } : {}), addedAt: isNew ? now : ... }
UpsertInfo(email, alias, isNew, info, now) ==
  AccountInfo(email,
              IF ~Falsy(alias) THEN alias ELSE NoAlias,
              IF isNew THEN now ELSE AddedAtOr(info, now))

\* await setAccountInfo(store, { accountId: email, service }, accountInfo)
SwitchSetInfo ==
  /\ pc = "sw_setInfo"
  /\ \E now \in (IF loc.isNew THEN Times ELSE NowChoices(loc.info)) :
       store' = setAccountInfo(store, loc.email, loc.service,
                  UpsertInfo(loc.email, call.alias, loc.isNew, loc.info, now))
  /\ pc' = "sw_setActive"
  /\ UNCHANGED <<call, loc, pre, result, hist, misuse, again>>
  /\ UNCHANGED <<parked, lastWriter, codec, switched>>

\* the count of the list read at the start, whatever was added since
TotalAccountsAtStart(existing, isNew) == Len(existing)

\* const totalAccounts = isNew ? existingAccounts.length + 1 : existingAccounts.length
TotalAccounts(existing, isNew) == IF isNew THEN Len(existing) + 1 ELSE Len(existing)

\* the handler activates the requested reference instead of the authorized account
SwitchSetActiveRequested ==
  /\ pc = "sw_setActive"
  /\ store' = setActiveAccount(store, loc.service,
                               IF Falsy(call.ref) THEN loc.email ELSE call.ref)
  /\ Finish(SwitchResult(loc.email, loc.isNew, TotalAccounts(loc.existing, loc.isNew)))
  /\ UNCHANGED <<call, pre, hist, misuse, again>>
  /\ UNCHANGED <<parked, lastWriter, codec, switched>>

\* await setActiveAccount(store, { service, accountId: email }); return result
SwitchSetActive ==
  /\ pc = "sw_setActive"
  /\ store' = setActiveAccount(store, loc.service, loc.email)
  /\ Finish(SwitchResult(loc.email, loc.isNew, TotalAccounts(loc.existing, loc.isNew)))
  /\ UNCHANGED <<call, pre, hist, misuse, again>>
  /\ UNCHANGED <<parked, lastWriter, codec, switched>>

SwitchStep ==
  \/ SwitchGetLinked
  \/ SwitchReuse
  \/ SwitchNotFound
  \/ SwitchReuseGetInfo
  \/ SwitchReuseSetInfo
  \/ ReauthRejects
  \/ \E e \in ToolAccounts, t \in Tokens : ReauthResolves(e, t)
  \/ ReauthSetsNothing
  \/ SwitchGetActive
  \/ SwitchGetInfo
  \/ SwitchSetInfo
  \/ SwitchSetActive

----------------------------------------------------------------------------
(* loopback.ts: the account-remove tool *)

RemoveResult(removed, remaining, newActive) ==
  [NoResult EXCEPT !.type = "success", !.removed = removed,
                   !.remainingAccounts = remaining, !.newActiveAccount = newActive]

CallAccountRemove(ref) ==
  /\ Begin([NoCall EXCEPT !.name = "account-remove", !.service = ToolService,
                          !.ref = ref])
  /\ pc' = "ar_getLinked"
  /\ loc' = [NoLoc EXCEPT !.service = ToolService]
  /\ result' = NoResult
  /\ again' = FALSE
  /\ UNCHANGED <<store, misuse>>

\* const linkedAccounts = await getLinkedAccounts(...); if (linkedAccounts.length === 0) throw
AccountRemoveGetLinked ==
  /\ pc = "ar_getLinked"
  /\ LET existing == getLinkedAccounts(store, loc.service)
     IN  IF Len(existing) = 0
           THEN Throw("No accounts to remove")
           ELSE /\ pc' = "find_getLinked"
                /\ loc' = [loc EXCEPT !.existing = existing, !.ret = "ar_found"]
                /\ UNCHANGED result
  /\ UNCHANGED <<store, call, pre, hist, misuse, again>>
  /\ UNCHANGED <<parked, lastWriter, codec, switched>>

\* a handler that takes an unresolved reference for nothing to do
AccountRemoveFoundOrNothing ==
  /\ pc = "ar_found"
  /\ IF loc.found = Null
       THEN Finish(RemoveResult(call.ref, Len(loc.existing), Undefined))
       ELSE /\ pc' = "ar_getActive"
            /\ loc' = [loc EXCEPT !.accountId = loc.found]
            /\ UNCHANGED result
  /\ UNCHANGED <<store, call, pre, hist, misuse, again>>
  /\ UNCHANGED <<parked, lastWriter, codec, switched>>

\* const accountId = await findAccountByEmailOrAlias(...); if (!accountId) throw
AccountRemoveFound ==
  /\ pc = "ar_found"
  /\ IF loc.found = Null
       THEN Throw("Account not found")
       ELSE /\ pc' = "ar_getActive"
            /\ loc' = [loc EXCEPT !.accountId = loc.found]
            /\ UNCHANGED result
  /\ UNCHANGED <<store, call, pre, hist, misuse, again>>
  /\ UNCHANGED <<parked, lastWriter, codec, switched>>

\* const activeAccount = await getActiveAccount(...); await removeAccount(...)
AccountRemoveGetActive ==
  /\ pc = "ar_getActive"
  /\ loc' = [loc EXCEPT
               !.removingActive = (getActiveAccount(store, loc.service) = loc.accountId),
               !.ret = "ar_removed"]
  /\ pc' = "rm_delToken"
  /\ UNCHANGED <<store, call, pre, result, hist, misuse, again>>
  /\ UNCHANGED <<parked, lastWriter, codec, switched>>

\* a handler that makes the last remaining account the active one
AccountRemoveRemovedLast ==
  /\ pc = "ar_removed"
  /\ LET remainingAccounts == FilterOut(loc.existing, loc.accountId)
         last == Len(remainingAccounts)
     IN  IF /\ loc.removingActive
            /\ Len(remainingAccounts) > 0
           THEN /\ store' = setActiveAccount(store, loc.service, remainingAccounts[last])
                /\ Finish(RemoveResult(loc.accountId, Len(remainingAccounts),
                                       remainingAccounts[last]))
           ELSE /\ Finish(RemoveResult(loc.accountId, Len(remainingAccounts), Undefined))
                /\ UNCHANGED store
  /\ UNCHANGED <<call, pre, hist, misuse, again>>
  /\ UNCHANGED <<parked, lastWriter, codec, switched>>

\* remainingAccounts = linkedAccounts.filter(...); if (removingActive && ...) await
\* setActiveAccount(store, { service, accountId: firstRemaining }); return result
AccountRemoveRemoved ==
  /\ pc = "ar_removed"
  /\ LET remainingAccounts == FilterOut(loc.existing, loc.accountId)
     IN  IF /\ loc.removingActive
            /\ Len(remainingAccounts) > 0
            /\ ~Falsy(remainingAccounts[1])
           THEN /\ store' = setActiveAccount(store, loc.service, remainingAccounts[1])
                /\ Finish(RemoveResult(loc.accountId, Len(remainingAccounts),
                                       remainingAccounts[1]))
           ELSE /\ Finish(RemoveResult(loc.accountId, Len(remainingAccounts), Undefined))
                /\ UNCHANGED store
  /\ UNCHANGED <<call, pre, hist, misuse, again>>
  /\ UNCHANGED <<parked, lastWriter, codec, switched>>

AccountRemoveStep ==
  \/ AccountRemoveGetLinked
  \/ AccountRemoveFound
  \/ AccountRemoveGetActive
  \/ AccountRemoveRemoved

----------------------------------------------------------------------------
(* The library and the account-switch tool, one call at a time *)

References == {Undefined} \cup ToolAccounts \cup Aliases

Next ==
  \/ \E a \in ToolAccounts : CallAddAccount(ToolService, a)
  \/ \E a \in ToolAccounts : CallRemoveAccount(ToolService, a)
  \/ \E a \in ToolAccounts \cup {Null} : CallSetActiveAccount(ToolService, a)
  \/ \E a \in ToolAccounts, t \in Tokens : CallSetToken(ToolService, a, t)
  \/ \E ref \in References, alias \in {NoAlias} \cup Aliases : CallAccountSwitch(ref, alias)
  \/ AddAccountStep
  \/ RemoveAccountStep
  \/ FindStep
  \/ SwitchStep

Spec == Init /\ [][Next]_vars

\* the same with the account-remove tool
NextTools ==
  \/ Next
  \/ \E ref \in ToolAccounts \cup Aliases : CallAccountRemove(ref)
  \/ AccountRemoveStep

SpecTools == Init /\ [][NextTools]_vars

----------------------------------------------------------------------------
(* key-utils.ts: keys built by createAccountKey and parsed by parseTokenKey *)

\* position of the first ':' of str, 0 when it has none
FirstColon(str) ==
  IF HasColon(str)
    THEN CHOOSE i \in 1..Len(str) :
           /\ SubSeq(str, i, i) = ":"
           /\ \A j \in 1..(i - 1) : SubSeq(str, j, j) # ":"
    ELSE 0

\* key.split(':')
RECURSIVE Split(_)
Split(str) ==
  IF ~HasColon(str)
    THEN <<str>>
    ELSE <<SubSeq(str, 1, FirstColon(str) - 1)>>
           \o Split(SubSeq(str, FirstColon(str) + 1, Len(str)))

\* a parser that only looks at the last segment
parseTokenKeyAnyLength(key) ==
  LET parts == Split(key)
  IN  IF Len(parts) < 3 \/ parts[Len(parts)] # "token" \/ parts[1] = "" \/ parts[2] = ""
        THEN NoParse
        ELSE [defined |-> TRUE, accountId |-> parts[1], service |-> parts[2]]

\* a parser that takes the first segment for the service
parseTokenKeyServiceFirst(key) ==
  LET parts == Split(key)
  IN  IF Len(parts) # 3 \/ parts[3] # "token" \/ parts[1] = "" \/ parts[2] = ""
        THEN NoParse
        ELSE [defined |-> TRUE, accountId |-> parts[2], service |-> parts[1]]

\* if (parts.length !== 3 || parts[2] !== 'token' || !parts[0] || !parts[1]) return undefined
parseTokenKey(key) ==
  LET parts == Split(key)
  IN  IF Len(parts) # 3 \/ parts[3] # "token" \/ parts[1] = "" \/ parts[2] = ""
        THEN NoParse
        ELSE [defined |-> TRUE, accountId |-> parts[1], service |-> parts[2]]

\* the strings passed as accountId and as service
KeyAccountIds == {"", "a", "a@x.com", "b@x.com", "a:b", ":", "a@x.com:gmail"}
                   \cup {Undefined, "<number>"}

KeyServices == {"", "gmail", "drive", "token", "g:m", "gmail:token"} \cup {"<null>"}

ServiceKeyTypes == {"active", "linked"}

AccountKeyTypes == {"token", "metadata", "dcr-client"}

\* createAccountKey(type, { accountId, service }): validateKeyParams throws, or the key
CallCreateAccountKey(type, accountId, service) ==
  /\ codec' = IF validateKeyParams(<<accountId, service>>)
                THEN [NoCodec EXCEPT !.phase = "key", !.fn = "createAccountKey",
                                     !.type = type,
                                     !.accountId = accountId, !.service = service,
                                     !.key = createAccountKey(type, accountId, service)]
                ELSE [NoCodec EXCEPT !.phase = "invalid", !.fn = "createAccountKey",
                                     !.type = type,
                                     !.accountId = accountId, !.service = service]
  /\ UNCHANGED <<store, pc, call, loc, pre, result, hist, misuse, again>>
  /\ UNCHANGED <<parked, lastWriter, switched>>

\* createServiceKey(type, { service }): validateKeyParams throws, or the key
CallCreateServiceKey(type, service) ==
  /\ codec' = IF validateKeyParams(<<service>>)
                THEN [NoCodec EXCEPT !.phase = "key", !.fn = "createServiceKey",
                                     !.type = type, !.service = service,
                                     !.key = createServiceKey(type, service)]
                ELSE [NoCodec EXCEPT !.phase = "invalid", !.fn = "createServiceKey",
                                     !.type = type, !.service = service]
  /\ UNCHANGED <<store, pc, call, loc, pre, result, hist, misuse, again>>
  /\ UNCHANGED <<parked, lastWriter, switched>>

\* parseTokenKey(key) of the key just built
CallParseTokenKey ==
  /\ codec.phase = "key"
  /\ codec' = [codec EXCEPT !.phase = "parsed", !.parsed = parseTokenKey(codec.key)]
  /\ UNCHANGED <<store, pc, call, loc, pre, result, hist, misuse, again>>
  /\ UNCHANGED <<parked, lastWriter, switched>>

\* strings found as keys of a store: keys of other kinds, foreign keys, malformed keys
RawKeys == {"", ":", "::", "token", "invalid-key", "invalid:key", "a:token", "::token",
            "a::token", ":gmail:token", "a:gmail:token", "a:gmail:metadata",
            "a:gmail:token:", "a:gmail:token:x", "a:b:gmail:token", "a:gmail:tokens",
            "gmail:linked", "gmail:active", "a@x.com:drive:token", "a:gmail:Token"}

\* parseTokenKey(key) of a key found in a store
CallParseRawKey(key) ==
  /\ codec' = [NoCodec EXCEPT !.phase = "raw", !.key = key, !.parsed = parseTokenKey(key)]
  /\ UNCHANGED <<store, pc, call, loc, pre, result, hist, misuse, again>>
  /\ UNCHANGED <<parked, lastWriter, switched>>

NextKey ==
  \/ \E type \in AccountKeyTypes, accountId \in KeyAccountIds, service \in KeyServices :
       CallCreateAccountKey(type, accountId, service)
  \/ \E type \in ServiceKeyTypes, service \in KeyServices :
       CallCreateServiceKey(type, service)
  \/ CallParseTokenKey
  \/ \E key \in RawKeys : CallParseRawKey(key)

SpecKey == Init /\ [][NextKey]_vars

----------------------------------------------------------------------------
(* key-utils.ts: listAccountIds *)

ListResult(accountIds) == [NoResult EXCEPT !.type = "ok", !.accountIds = accountIds]

\* const iterator = store.iterator?.(undefined); if (!iterator) return accountIds
CallListAccountIds(s, iterable) ==
  /\ Begin([NoCall EXCEPT !.name = "listAccountIds", !.service = s,
                          !.iterable = iterable])
  /\ again' = FALSE
  /\ IF iterable
       THEN /\ pc' = "list_next"
            /\ loc' = [NoLoc EXCEPT !.service = s, !.remaining = DOMAIN store]
            /\ result' = NoResult
       ELSE /\ pc' = "done"
            /\ loc' = NoLoc
            /\ result' = ListResult(<< >>)
  /\ UNCHANGED <<store, misuse>>

\* for await (const [key] of iterator): the iterator yields the next key, in the
\* order of the store, which is any order
ListNext ==
  /\ pc = "list_next"
  /\ \E key \in loc.remaining :
       loc' = [loc EXCEPT
                 !.remaining = @ \ {key},
                 !.accountIds = IF /\ parseTokenKey(key).defined
                                     /\ parseTokenKey(key).service = loc.service
                                  THEN Append(@, parseTokenKey(key).accountId)
                                  ELSE @]
  /\ UNCHANGED <<store, pc, call, pre, result, hist, misuse, again>>
  /\ UNCHANGED <<parked, lastWriter, codec, switched>>

\* the iterator is exhausted: return accountIds
ListReturn ==
  /\ pc = "list_next"
  /\ loc.remaining = {}
  /\ Finish(ListResult(loc.accountIds))
  /\ UNCHANGED <<store, call, pre, hist, misuse, again>>
  /\ UNCHANGED <<parked, lastWriter, codec, switched>>

\* the iterator throws, when created or at any next(): catch (_error) { return accountIds }
ListFails ==
  /\ pc = "list_next"
  /\ hist' = [hist EXCEPT !.failedAt = pc]
  /\ Finish(ListResult(loc.accountIds))
  /\ UNCHANGED <<store, call, pre, misuse, again>>
  /\ UNCHANGED <<parked, lastWriter, codec, switched>>

NextList ==
  \/ \E s \in Services, a \in ToolAccounts, t \in Tokens : CallSetToken(s, a, t)
  \/ \E a \in ToolAccounts : CallAddAccount(ToolService, a)
  \/ AddAccountStep
  \/ \E s \in Services, iterable \in BOOLEAN : CallListAccountIds(s, iterable)
  \/ ListNext
  \/ ListReturn
  \/ ListFails

SpecList == Init /\ [][NextList]_vars

----------------------------------------------------------------------------
(* Two callers on one event loop: a call runs until it awaits a store call *)

\* the running call awaits a store call, or has returned, and the other caller
\* runs: it resumes its call, or it is free to begin one
Yield ==
  /\ pc # "idle"
  /\ parked.pc # "done"
  /\ parked' = [pc |-> pc, call |-> call, loc |-> loc, result |-> result,
                hist |-> hist, again |-> again]
  /\ pc' = parked.pc
  /\ call' = parked.call
  /\ loc' = parked.loc
  /\ pre' = store
  /\ result' = parked.result
  /\ hist' = parked.hist
  /\ again' = parked.again
  /\ UNCHANGED <<store, misuse, lastWriter, codec, switched>>

\* the reference and the alias of the account-switch call the two callers make
ConcReferences == {"a@x.com"}

ConcAliases == {"work"}

NextConc ==
  \/ \E a \in ToolAccounts : CallAddAccount(ToolService, a)
  \/ \E a \in ToolAccounts : CallRemoveAccount(ToolService, a)
  \/ ~switched /\ \E ref \in ConcReferences, alias \in ConcAliases :
                    CallAccountSwitch(ref, alias)
  \/ AddAccountStep
  \/ RemoveAccountStep
  \/ FindStep
  \/ SwitchStep
  \/ Yield

SpecConc == Init /\ [][NextConc]_vars

----------------------------------------------------------------------------
(* account-utils.ts: setToken calls of two callers *)

\* the credentials the callers store
TokenValues == {"tok1", "tok2"}

\* const key = createAccountKey('token', params), then the store call is awaited
CallSetTokenAwait(s, a, t) ==
  /\ Begin([NoCall EXCEPT !.name = "setToken", !.service = s, !.accountId = a])
  /\ again' = FALSE
  /\ IF validateKeyParams(<<a, s>>)
       THEN /\ pc' = "tok_set"
            /\ loc' = [NoLoc EXCEPT !.service = s, !.accountId = a, !.token = t]
            /\ result' = NoResult
       ELSE Throw("invalid key parameter")
  /\ UNCHANGED <<store, misuse>>

\* await store.set(key, token)
SetTokenSet ==
  /\ pc = "tok_set"
  /\ store' = setToken(store, loc.accountId, loc.service, loc.token)
  /\ Return(loc)
  /\ UNCHANGED <<call, pre, hist, misuse, again>>
  /\ UNCHANGED <<parked, lastWriter, codec, switched>>

NextTok ==
  \/ \E s \in Services, a \in ToolAccounts, t \in TokenValues : CallSetTokenAwait(s, a, t)
  \/ SetTokenSet
  \/ Yield

SpecTok == Init /\ [][NextTok]_vars

----------------------------------------------------------------------------
(* The library and the account-switch tool on a store whose calls can fail *)

\* a failed store call loses the state the running call has reached
StoreCallFailsRollsBack ==
  /\ call.name \in {"addAccount", "removeAccount"}
  /\ ~Quiescent
  /\ hist' = [hist EXCEPT !.failedAt = pc]
  /\ Throw("store error")
  /\ store' = pre
  /\ UNCHANGED <<call, pre, misuse, again>>
  /\ UNCHANGED <<parked, lastWriter, codec, switched>>

\* the store call the running addAccount or removeAccount awaits rejects: nothing
\* catches the rejection, so the call ends with it
StoreCallFails ==
  /\ call.name \in {"addAccount", "removeAccount"}
  /\ ~Quiescent
  /\ hist' = [hist EXCEPT !.failedAt = pc]
  /\ Throw("store error")
  /\ UNCHANGED <<store, call, pre, misuse, again>>
  /\ UNCHANGED <<parked, lastWriter, codec, switched>>

NextFail ==
  \/ Next
  \/ StoreCallFails

SpecFail == Init /\ [][NextFail]_vars


----------------------------------------------------------------------------
(* Observations used by the properties *)

\* the pointer of service s in store st is absent or a member of the linked list
PointerLinked(st, s) ==
  \/ getActiveAccount(st, s) = Undefined
  \/ Includes(getLinkedAccounts(st, s), getActiveAccount(st, s))

Occurrences(seq, x) == Cardinality({i \in 1..Len(seq) : seq[i] = x})

\* positions of x in seq
Positions(seq, x) == {i \in 1..Len(seq) : seq[i] = x}

Completed(name) == pc = "done" /\ call.name = name /\ result.type \in {"ok", "success"}

----------------------------------------------------------------------------
(* Properties of the directory operations (SpecDir) *)

\* C1 as stated: after any completed addAccount, removeAccount and setActiveAccount
\* calls, with any arguments, a present pointer is a member of the linked list.
C1_PointerLinkedAnyArguments ==
  Quiescent => \A s \in Services : PointerLinked(store, s)

\* C1 amended: after completed addAccount, removeAccount and setActiveAccount calls,
\* where setActiveAccount was only called with a linked account or with null, a
\* present pointer is a member of the linked list.
C1_PointerLinkedAfterCalls ==
  (Quiescent /\ ~misuse) => \A s \in Services : PointerLinked(store, s)

\* removeAccount of the active account has completed and re-pointed the pointer
C1_Witness ==
  /\ Completed("removeAccount")
  /\ ~misuse
  /\ getActiveAccount(pre, call.service) = call.accountId
  /\ getActiveAccount(store, call.service) \notin {Undefined, call.accountId}

\* C2: at every observable store state, also between two store calls of a running
\* addAccount or removeAccount, a present pointer is a member of the linked list.
C2_PointerLinkedAtEveryState ==
  ~misuse => \A s \in Services : PointerLinked(store, s)

\* C9: a second addAccount(s, a) right after the first leaves exactly one
\* occurrence of a, at the same position, and changes no record of the store.
C9_AddAccountTwice ==
  (call.name = "addAccount" /\ again) =>
    /\ store = pre
    /\ pc = "done" =>
         /\ Occurrences(getLinkedAccounts(store, call.service), call.accountId) = 1
         /\ Positions(getLinkedAccounts(store, call.service), call.accountId)
              = Positions(getLinkedAccounts(pre, call.service), call.accountId)

\* the repeated addAccount has completed on a list of several accounts
C9_Witness ==
  /\ Completed("addAccount")
  /\ again
  /\ Len(getLinkedAccounts(store, call.service)) >= 2

\* C10: addAccount on an empty directory makes the account active; addAccount on a
\* service that has a pointer leaves the pointer unchanged.
C10_FirstAccountBecomesActive ==
  Completed("addAccount") =>
    /\ (/\ getLinkedAccounts(pre, call.service) = << >>
        /\ getActiveAccount(pre, call.service) = Undefined)
         => getActiveAccount(store, call.service) = call.accountId
    /\ getActiveAccount(pre, call.service) # Undefined
         => getActiveAccount(store, call.service) = getActiveAccount(pre, call.service)

\* a second account was added while another account was active
C10_Witness ==
  /\ Completed("addAccount")
  /\ getActiveAccount(pre, call.service) \notin {Undefined, call.accountId}
  /\ ~Includes(getLinkedAccounts(pre, call.service), call.accountId)
  /\ Includes(getLinkedAccounts(store, call.service), call.accountId)

----------------------------------------------------------------------------
(* Properties of the account-switch tool (Spec) *)

Min(S) == CHOOSE x \in S : \A y \in S : x <= y

\* the linked account a reference denotes in store st: the identifier itself when it
\* is linked, else the first linked account whose alias is the reference, else Null
ResolvesTo(st, s, ref) ==
  LET linked == getLinkedAccounts(st, s)
      hits == {i \in 1..Len(linked) :
                 /\ Has(st, createAccountKey("metadata", linked[i], s))
                 /\ st[createAccountKey("metadata", linked[i], s)].alias = ref}
  IN  IF ref = Undefined THEN Null
      ELSE IF Includes(linked, ref) THEN ref
      ELSE IF hits = {} THEN Null
      ELSE linked[Min(hits)]

Switching == call.name = "account-switch"

Resolved == Switching /\ ResolvesTo(pre, call.service, call.ref) # Null

LinkedBefore(a) == Includes(getLinkedAccounts(pre, call.service), a)

\* C3: a reference that resolves, by identifier or by alias, to a linked account makes
\* that account active with isNew = false, leaves the linked list unchanged and never
\* invokes the re-authentication capability.
C3_ReusePath ==
  Resolved =>
    /\ hist.reauthCalls = 0
    /\ createServiceKey("linked", call.service) \in DOMAIN store
    /\ getLinkedAccounts(store, call.service) = getLinkedAccounts(pre, call.service)
    /\ pc = "done" =>
         /\ result.type = "success"
         /\ result.email = ResolvesTo(pre, call.service, call.ref)
         /\ result.isNew = FALSE
         /\ getActiveAccount(store, call.service) = result.email

\* a switch by alias to the second linked account, which was not active, has returned
C3_Witness ==
  /\ Completed("account-switch")
  /\ call.ref \in Aliases
  /\ Resolved
  /\ Len(getLinkedAccounts(pre, call.service)) = 2
  /\ getActiveAccount(pre, call.service) # result.email
  /\ getActiveAccount(pre, call.service) # Undefined

C5_AliasKept ==
  (/\ Completed("account-switch")
   /\ hist.reauthCalls = 1
   /\ call.alias = NoAlias
   /\ LinkedBefore(result.email)
   /\ getAccountInfo(pre, result.email, call.service).alias # NoAlias)
    => getAccountInfo(store, result.email, call.service).alias
         = getAccountInfo(pre, result.email, call.service).alias

\* C6: when the flow authorizes an account that was in the linked list read at the
\* start, isNew = false, addAccount is not called and the list holds it exactly once.
C6_RelinkNoDuplicate ==
  (/\ Completed("account-switch")
   /\ hist.reauthCalls = 1
   /\ LinkedBefore(result.email))
    => /\ result.isNew = FALSE
       /\ hist.addCalls = 0
       /\ Occurrences(getLinkedAccounts(store, call.service), result.email) = 1

\* another linked account was requested by a reference that did not resolve
C6_Witness ==
  /\ Completed("account-switch")
  /\ hist.reauthCalls = 1
  /\ hist.flowEmail = result.email
  /\ LinkedBefore(result.email)
  /\ call.ref \notin {Undefined, result.email}
  /\ Len(getLinkedAccounts(store, call.service)) = 2

\* keys of the records other than the active pointers
RecordKeys(st) == {k \in DOMAIN st : \A s \in Services : k # createServiceKey("active", s)}

\* C7: re-linking an already-linked account without an alias changes nothing but the
\* active pointer: the linked list, every metadata record and every credential
\* record are the same after account-switch as before it.
C7_RelinkIsNoOp ==
  (/\ Completed("account-switch")
   /\ call.alias = NoAlias
   /\ LinkedBefore(result.email))
    => /\ RecordKeys(store) = RecordKeys(pre)
       /\ \A k \in RecordKeys(pre) : store[k] = pre[k]

\* C8: when account-switch returns success, the active pointer is the email of the
\* result and that email is linked.
C8_SwitchResultActive ==
  Completed("account-switch") =>
    /\ getActiveAccount(store, call.service) = result.email
    /\ Includes(getLinkedAccounts(store, call.service), result.email)

\* a switch has linked a second account and returned
C8_Witness ==
  /\ Completed("account-switch")
  /\ result.isNew
  /\ Len(getLinkedAccounts(store, call.service)) = 2
  /\ getActiveAccount(pre, call.service) # result.email


----------------------------------------------------------------------------
(* Removal (SpecDir) *)

\* positions of the list of service s in st that hold another account than a
Remaining(st, s, a) ==
  {i \in 1..Len(getLinkedAccounts(st, s)) : getLinkedAccounts(st, s)[i] # a}

\* C11: removeAccount of the active account re-points the pointer to the first
\* remaining account in list order, or deletes the pointer when none remains;
\* removeAccount of another account leaves the pointer unchanged.
C11_RemoveRepoints ==
  Completed("removeAccount") =>
    LET s == call.service
        a == call.accountId
        rem == Remaining(pre, s, a)
    IN  IF getActiveAccount(pre, s) = a
          THEN IF rem = {}
                 THEN ~Has(store, createServiceKey("active", s))
                 ELSE getActiveAccount(store, s) = getLinkedAccounts(pre, s)[Min(rem)]
          ELSE /\ getActiveAccount(store, s) = getActiveAccount(pre, s)
               /\ Has(store, createServiceKey("active", s))
                    = Has(pre, createServiceKey("active", s))

\* the active account was removed while two other accounts were linked
C11_Witness ==
  /\ Completed("removeAccount")
  /\ getActiveAccount(pre, call.service) = call.accountId
  /\ Includes(getLinkedAccounts(pre, call.service), call.accountId)
  /\ Len(getLinkedAccounts(pre, call.service)) = 3
  /\ Len(getLinkedAccounts(store, call.service)) = 2


----------------------------------------------------------------------------
(* Removal of the records of an account (Spec) *)

\* keys of the credential and metadata records of st
AccountKeys(st) ==
  {k \in DOMAIN st : \E t \in {"token", "metadata"}, a \in Accounts, s \in Services :
                        k = createAccountKey(t, a, s)}

\* the credential and metadata keys of the pair (a, s)
KeysOf(a, s) == {createAccountKey("token", a, s), createAccountKey("metadata", a, s)}

\* C14: after removeAccount(service, accountId) returns, the credential and the
\* metadata of the pair are absent, whether or not they existed before, and the
\* credential and metadata records of the other accounts are unchanged.
C14_RemoveDeletesRecords ==
  Completed("removeAccount") =>
    /\ getToken(store, call.accountId, call.service) = Undefined
    /\ ~getAccountInfo(store, call.accountId, call.service).present
    /\ AccountKeys(store) = AccountKeys(pre) \ KeysOf(call.accountId, call.service)
    /\ \A k \in AccountKeys(store) : store[k] = pre[k]

\* an account with a credential and metadata was removed next to another such account
C14_Witness ==
  /\ Completed("removeAccount")
  /\ KeysOf(call.accountId, call.service) \subseteq AccountKeys(pre)
  /\ \E b \in ToolAccounts \ {call.accountId} :
       KeysOf(b, call.service) \subseteq AccountKeys(store)


----------------------------------------------------------------------------
(* Failure of the re-authentication (Spec) *)

RejectedSwitch ==
  /\ Switching
  /\ pc = "done"
  /\ result.type = "error"
  /\ result.message = "authorization failed"

----------------------------------------------------------------------------
(* Result of account-switch (Spec) *)

\* C18: totalAccounts of every successful account-switch result is the length of
\* the linked list of the service after the operation.
C18_TotalAccountsIsListLength ==
  Completed("account-switch") =>
    result.totalAccounts = Len(getLinkedAccounts(store, call.service))

\* a switch that linked a second account has reported two accounts
C18_Witness ==
  /\ Completed("account-switch")
  /\ result.isNew
  /\ result.totalAccounts = 2
  /\ Len(getLinkedAccounts(pre, call.service)) = 1


\* C19: on the reuse path with an alias supplied, the metadata of the account
\* afterwards has the supplied alias and the addedAt it had before the call.
C19_AliasUpdateKeepsAddedAt ==
  (Resolved /\ Completed("account-switch") /\ ~Falsy(call.alias)) =>
    LET before == getAccountInfo(pre, result.email, call.service)
        after == getAccountInfo(store, result.email, call.service)
    IN  /\ after.present
        /\ after.alias = call.alias
        /\ after.email = result.email
        /\ before.present => after.addedAt = before.addedAt

\* the alias of a linked account with metadata was replaced by another alias
C19_Witness ==
  /\ Resolved
  /\ Completed("account-switch")
  /\ ~Falsy(call.alias)
  /\ getAccountInfo(pre, result.email, call.service).present
  /\ getAccountInfo(pre, result.email, call.service).alias \notin {NoAlias, call.alias}
  /\ getAccountInfo(pre, result.email, call.service).addedAt # MaxTime


----------------------------------------------------------------------------
(* Errors of account-remove (SpecTools) *)

RemoveFailed(msg) ==
  /\ call.name = "account-remove"
  /\ pc = "done"
  /\ result.type = "error"
  /\ result.message = msg

\* C15: account-remove with a reference that resolves to no linked account fails
\* with "Account not found"; with an empty linked list it fails with "No accounts
\* to remove"; in both cases no record of the store is changed.
C15_RemoveErrors ==
  (/\ call.name = "account-remove"
   /\ ResolvesTo(pre, call.service, call.ref) = Null)
    => /\ store = pre
       /\ pc = "done" =>
            IF getLinkedAccounts(pre, call.service) = << >>
              THEN RemoveFailed("No accounts to remove")
              ELSE RemoveFailed("Account not found")

\* an alias of no account was given while two accounts, one with an alias, are linked
C15_Witness ==
  /\ RemoveFailed("Account not found")
  /\ call.ref \in Aliases
  /\ Len(getLinkedAccounts(store, call.service)) = 2
  /\ \E a \in ToolAccounts : getAccountInfo(store, a, call.service).alias \in Aliases


----------------------------------------------------------------------------
(* Failing store calls (SpecFail) *)

\* the store after the store calls removeAccount(s, a) completes before the call at
\* label at, starting from st
RemoveEffectsBefore(st, s, a, at) ==
  LET noToken == StoreDelete(st, createAccountKey("token", a, s))
      noInfo == StoreDelete(noToken, createAccountKey("metadata", a, s))
      listed == [k \in DOMAIN noInfo \cup {createServiceKey("linked", s)} |->
                   IF k = createServiceKey("linked", s)
                     THEN SelectSeq(getLinkedAccounts(st, s), LAMBDA x : x # a)
                     ELSE noInfo[k]]
  IN  CASE at = "rm_delToken" -> st
        [] at = "rm_delInfo" -> noToken
        [] at \in {"rm_getLinked", "rm_setLinked"} -> noInfo
        [] at \in {"rm_getActive", "rm_setActive", "rm_delActive"} -> listed

\* the store after the store calls addAccount(s, a) completes before the call at
\* label at, starting from st
AddEffectsBefore(st, s, a, at) ==
  LET listed == [k \in DOMAIN st \cup {createServiceKey("linked", s)} |->
                   IF k = createServiceKey("linked", s)
                     THEN IF Includes(getLinkedAccounts(st, s), a)
                            THEN getLinkedAccounts(st, s)
                            ELSE Append(getLinkedAccounts(st, s), a)
                     ELSE st[k]]
  IN  CASE at \in {"add_getLinked", "add_setLinked"} -> st
        [] at \in {"add_getActive", "add_setActive"} -> listed

Failed == pc = "done" /\ hist.failedAt # "none"

\* C17: when a store call inside addAccount or removeAccount fails, the call ends
\* with that error, no further store call is made, and the store holds the effects
\* of the store calls completed before the failing one.
C17_NoRollback ==
  Failed =>
    /\ result = ErrorResult("store error")
    /\ call.name = "removeAccount" =>
         store = RemoveEffectsBefore(pre, call.service, call.accountId, hist.failedAt)
    /\ call.name = "addAccount" =>
         store = AddEffectsBefore(pre, call.service, call.accountId, hist.failedAt)

\* removeAccount failed after it deleted the credential: the account is still linked
C17_Witness ==
  /\ Failed
  /\ call.name = "removeAccount"
  /\ getToken(pre, call.accountId, call.service) # Undefined
  /\ getToken(store, call.accountId, call.service) = Undefined
  /\ Includes(getLinkedAccounts(store, call.service), call.accountId)
  /\ getActiveAccount(store, call.service) = call.accountId


----------------------------------------------------------------------------
(* Two concurrent callers (SpecConc) *)

NoDuplicates(seq) == \A i, j \in 1..Len(seq) : seq[i] = seq[j] => i = j

\* C12: in every reachable state, for any interleaving of addAccount, removeAccount
\* and account-switch calls, the linked list of every service has no duplicates.
C12_NoDuplicates ==
  \A s \in Services : NoDuplicates(getLinkedAccounts(store, s))


\* a caller is about to push an account onto the list it read, while the other
\* caller has linked that account since
C12_Witness ==
  /\ pc = "add_setLinked"
  /\ ~Includes(loc.linked, loc.accountId)
  /\ Includes(getLinkedAccounts(store, loc.service), loc.accountId)
  /\ parked.call.name = "addAccount"
  /\ parked.call.accountId = loc.accountId

\* both callers have returned from addAccount calls for different accounts that
\* read the same list, which held neither account
BothAdded ==
  /\ pc = "done"
  /\ parked.pc = "done"
  /\ call.name = "addAccount"
  /\ parked.call.name = "addAccount"
  /\ result.type = "ok"
  /\ parked.result.type = "ok"
  /\ call.service = parked.call.service
  /\ call.accountId # parked.call.accountId
  /\ hist.read = parked.hist.read
  /\ ~Includes(hist.read, call.accountId)
  /\ ~Includes(hist.read, parked.call.accountId)

\* C13: two concurrent addAccount calls for one service and different accounts can
\* both read the list before either writes it; after both have returned, the list
\* is the list they read plus the account of the last writer only.
C13_LastWriterWins ==
  BothAdded =>
    /\ lastWriter \in {call.accountId, parked.call.accountId}
    /\ getLinkedAccounts(store, call.service) = Append(hist.read, lastWriter)

\* the update of the caller that wrote first is lost
C13_Witness ==
  /\ BothAdded
  /\ \E a \in {call.accountId, parked.call.accountId} :
       /\ a # lastWriter
       /\ ~Includes(getLinkedAccounts(store, call.service), a)


----------------------------------------------------------------------------
(* Key round trip (SpecKey) *)

\* C20: for every non-empty string accountId and service without ':', createAccountKey
\* accepts the pair and parseTokenKey of the 'token' key it builds returns exactly
\* that accountId and that service.
C20_KeyRoundTrip ==
  (/\ codec.fn = "createAccountKey"
   /\ codec.accountId # ""
   /\ codec.service # ""
   /\ IsString(codec.accountId)
   /\ IsString(codec.service)
   /\ ~HasColon(codec.accountId)
   /\ ~HasColon(codec.service))
    => /\ codec.phase # "invalid"
       /\ (codec.phase = "parsed" /\ codec.type = "token")
            => codec.parsed = [defined |-> TRUE, accountId |-> codec.accountId,
                               service |-> codec.service]

\* the token key of an email address and a service was built and parsed back
C20_Witness ==
  /\ codec.phase = "parsed"
  /\ codec.type = "token"
  /\ codec.key = "a@x.com:gmail:token"
  /\ codec.parsed.defined
  /\ codec.parsed.accountId = "a@x.com"


----------------------------------------------------------------------------
(* parseTokenKey on any string (SpecKey) *)

\* positions of the delimiter in str
Colons(str) == {i \in 1..Len(str) : SubSeq(str, i, i) = ":"}

Max(S) == CHOOSE x \in S : \A y \in S : x >= y

\* str is three non-empty segments separated by two ':' and its last one is "token"
TokenKeyShape(str) ==
  /\ Cardinality(Colons(str)) = 2
  /\ Min(Colons(str)) > 1
  /\ Max(Colons(str)) > Min(Colons(str)) + 1
  /\ SubSeq(str, Max(Colons(str)) + 1, Len(str)) = "token"

\* C21: parseTokenKey returns {accountId, service} exactly for the keys of three
\* non-empty segments separated by ':' whose last segment is "token", and then the
\* first two segments; for every other string it returns undefined.
C21_ParseTokenKey ==
  codec.phase \in {"parsed", "raw"} =>
    IF TokenKeyShape(codec.key)
      THEN codec.parsed =
             [defined |-> TRUE,
              accountId |-> SubSeq(codec.key, 1, Min(Colons(codec.key)) - 1),
              service |-> SubSeq(codec.key, Min(Colons(codec.key)) + 1,
                                 Max(Colons(codec.key)) - 1)]
      ELSE codec.parsed = NoParse

\* a key of four segments ending in "token" was parsed and rejected
C21_Witness ==
  /\ codec.phase = "raw"
  /\ codec.key = "a:b:gmail:token"
  /\ codec.parsed = NoParse


----------------------------------------------------------------------------
(* Key constructors (SpecKey) *)

\* str is the strings of parts joined by ':'
RECURSIVE Joined(_, _)
Joined(str, parts) ==
  IF Len(parts) = 1
    THEN str = parts[1]
    ELSE /\ Len(str) > Len(parts[1])
         /\ SubSeq(str, 1, Len(parts[1])) = parts[1]
         /\ SubSeq(str, Len(parts[1]) + 1, Len(parts[1]) + 1) = ":"
         /\ Joined(SubSeq(str, Len(parts[1]) + 2, Len(str)), Tail(parts))

\* an identifier the constructors must refuse
Refused(v) == v \in NonStrings \/ \E i \in 1..Len(v) : SubSeq(v, i, i) = ":"

\* C22: createAccountKey returns accountId:service:type and createServiceKey returns
\* service:type; each throws, and returns no key, whenever an identifier passed to it
\* contains ':' or is not a string.
C22_KeyConstructors ==
  /\ codec.fn = "createAccountKey" =>
       IF Refused(codec.accountId) \/ Refused(codec.service)
         THEN codec.phase = "invalid" /\ codec.key = ""
         ELSE /\ codec.phase \in {"key", "parsed"}
              /\ Joined(codec.key, <<codec.accountId, codec.service, codec.type>>)
  /\ codec.fn = "createServiceKey" =>
       IF Refused(codec.service)
         THEN codec.phase = "invalid" /\ codec.key = ""
         ELSE /\ codec.phase \in {"key", "parsed"}
              /\ Joined(codec.key, <<codec.service, codec.type>>)

\* an account key was refused for the ':' in its service alone
C22_Witness ==
  /\ codec.fn = "createAccountKey"
  /\ codec.phase = "invalid"
  /\ codec.accountId = "a@x.com"
  /\ codec.service = "g:m"


----------------------------------------------------------------------------
(* Enumeration of accounts (SpecList) *)

\* the accounts that have a credential record for service s in st
TokenAccounts(st, s) ==
  {a \in Accounts : Has(st, a \o ":" \o s \o ":token")}

Listed == pc = "done" /\ call.name = "listAccountIds"

\* C23: listAccountIds(store, service) returns the account identifiers of exactly the
\* token keys of that service, each once; when the store cannot be enumerated or the
\* iteration fails at any point it returns the empty sequence, and it never throws.
C23_ListAccountIds ==
  Listed =>
    /\ result.type = "ok"
    /\ IF call.iterable /\ hist.failedAt = "none"
         THEN /\ {result.accountIds[i] : i \in 1..Len(result.accountIds)}
                   = TokenAccounts(store, call.service)
              /\ NoDuplicates(result.accountIds)
         ELSE result.accountIds = << >>


----------------------------------------------------------------------------
(* Isolation of credentials (SpecTok) *)

\* C24: the store call of setToken(a, s, t) makes getToken(a, s) return t and leaves
\* getToken(a', s') as it was for every other pair, whatever calls of the other
\* caller are pending or have written.
C24_TokenIsolation ==
  [][SetTokenSet =>
       /\ getToken(store', loc.accountId, loc.service) = loc.token
       /\ \A a \in Accounts, s \in Services :
            <<a, s>> # <<loc.accountId, loc.service>>
              => getToken(store', a, s) = getToken(store, a, s)]_vars

\* a setToken call has returned while a setToken call of the other caller for the
\* same account and another service is pending, and a third pair holds another token
C24_Witness ==
  /\ Completed("setToken")
  /\ parked.pc = "tok_set"
  /\ parked.call.accountId = call.accountId
  /\ parked.call.service # call.service
  /\ getToken(store, call.accountId, call.service) = "tok1"
  /\ \E a \in ToolAccounts \ {call.accountId} : getToken(store, a, call.service) = "tok2"



----------------------------------------------------------------------------
(* C25: resolution of an account reference *)

\* the positions of the linked accounts whose metadata alias is the reference
AliasMatches(st, service, ref) ==
  LET linked == getLinkedAccounts(st, service)
  IN  {i \in 1..Len(linked) :
         LET info == getAccountInfo(st, linked[i], service)
         IN  info.present /\ info.alias = ref}

\* findAccountByEmailOrAlias has returned to the handler that called it
FindReturned == pc \in {"sw_found", "ar_found"}

\* C25: findAccountByEmailOrAlias returns the reference itself when it is a
\* linked account identifier, even if another linked account carries it as its
\* alias; otherwise the first account in list order whose alias is the
\* reference; otherwise not-found; and never an account that is not linked.
C25_FindAccount ==
  FindReturned =>
    /\ loc.found = ResolvesTo(store, loc.service, call.ref)
    /\ loc.found # Null => Includes(getLinkedAccounts(store, loc.service), loc.found)

\* the reference is a linked account and an earlier linked account has it as alias
C25_Witness ==
  /\ FindReturned
  /\ loc.found = call.ref
  /\ LET linked == getLinkedAccounts(store, loc.service)
     IN  \E i \in AliasMatches(store, loc.service, call.ref) :
           \E j \in 1..Len(linked) : i < j /\ linked[j] = call.ref

\* two linked accounts carry the alias and the first of them is returned
C25_WitnessFirstAlias ==
  /\ FindReturned
  /\ loc.found # Null /\ loc.found # call.ref
  /\ \E i, j \in AliasMatches(store, loc.service, call.ref) : i # j



----------------------------------------------------------------------------
(* account-utils.ts: addAccount and removeAccount calls of two callers *)

NextAddRemoveConc ==
  \/ \E a \in ToolAccounts : CallAddAccount(ToolService, a)
  \/ \E a \in ToolAccounts : CallRemoveAccount(ToolService, a)
  \/ AddAccountStep
  \/ RemoveAccountStep
  \/ Yield

SpecAddRemoveConc == Init /\ [][NextAddRemoveConc]_vars

\* no call of either caller is in progress
AllReturned == Quiescent /\ parked.pc \in {"idle", "done"}

\* C26: for any interleaving of the store calls of concurrent addAccount and
\* removeAccount calls on one service, once all calls have returned the active
\* pointer is absent or a member of the service's linked list.
C26_PointerLinkedAfterConcurrentCalls ==
  AllReturned => PointerLinked(store, ToolService)



----------------------------------------------------------------------------
(* account-utils.ts: addAccount and removeAccount only, one call at a time *)

NextAddRemove ==
  \/ \E s \in Services, a \in Accounts : CallAddAccount(s, a)
  \/ \E s \in Services, a \in Accounts : CallRemoveAccount(s, a)
  \/ AddAccountStep
  \/ RemoveAccountStep

SpecAddRemove == Init /\ [][NextAddRemove]_vars

\* C27: from an empty store, with only addAccount and removeAccount run one at
\* a time, between calls the active pointer of a service is present exactly
\* when its linked list is non-empty, and it is then a member of the list.
C27_PointerIffListNonEmpty ==
  Quiescent =>
    \A s \in Services :
      /\ getActiveAccount(store, s) # Undefined <=> getLinkedAccounts(store, s) # << >>
      /\ PointerLinked(store, s)

\* the active account of a list of three was removed and the pointer moved on
C27_Witness ==
  /\ Completed("removeAccount")
  /\ getActiveAccount(pre, call.service) = call.accountId
  /\ Len(getLinkedAccounts(pre, call.service)) = 3
  /\ getActiveAccount(store, call.service) \notin {Undefined, call.accountId}
  /\ \E s \in Services \ {call.service} : getLinkedAccounts(store, s) = << >>



----------------------------------------------------------------------------
(* account-utils.ts: addAccount and removeAccount with an identifier that
   createAccountKey rejects *)

\* the identifiers the caller passes: one of them contains the delimiter
ColonAccounts == {"a@x.com", "b@x.com", "a:b"}

NextColon ==
  \/ \E s \in Services, a \in ColonAccounts : CallAddAccount(s, a)
  \/ \E s \in Services, a \in ColonAccounts : CallRemoveAccount(s, a)
  \/ AddAccountStep
  \/ RemoveAccountStep

SpecColon == Init /\ [][NextColon]_vars

\* C28: addAccount never stores in the linked list or in the active pointer an
\* accountId that createAccountKey rejects (one containing ':'): such a call
\* fails without changing the store, so removeAccount never fails with an
\* invalid-key error on an account that is linked.
C28_NoRejectedAccountStored ==
  /\ \A s \in Services :
       /\ ~HasColon(getActiveAccount(store, s))
       /\ \A i \in 1..Len(getLinkedAccounts(store, s)) :
            ~HasColon(getLinkedAccounts(store, s)[i])
  /\ (pc = "done" /\ call.name = "addAccount" /\ HasColon(call.accountId))
       => (result.type = "error" /\ store = pre)
  /\ (pc = "done" /\ call.name = "removeAccount"
        /\ Includes(getLinkedAccounts(pre, call.service), call.accountId))
       => result.type # "error"

\* removeAccount of a linked account fails with the invalid-key error
C28_RemoveOfLinkedFails ==
  ~(/\ pc = "done" /\ call.name = "removeAccount"
    /\ Includes(getLinkedAccounts(pre, call.service), call.accountId)
    /\ result.type = "error"
    /\ result.message = "invalid key parameter")



----------------------------------------------------------------------------
(* C29: order of the linked list (SpecDir) *)

\* x stands before y in seq
Before(seq, x, y) == \E i, j \in 1..Len(seq) : i < j /\ seq[i] = x /\ seq[j] = y

Elements(seq) == {seq[i] : i \in 1..Len(seq)}

\* C29: the linked list is kept in insertion order: addAccount of a new
\* identifier appends it at the end and leaves the existing entries in place;
\* removeAccount removes only the named identifier, changes nothing in the list
\* when it is absent, and keeps the relative order of the others.
C29_InsertionOrder ==
  LET old == getLinkedAccounts(pre, call.service)
      new == getLinkedAccounts(store, call.service)
      a == call.accountId
  IN  /\ (Completed("addAccount") /\ ~Includes(old, a))
           => /\ Len(new) = Len(old) + 1
              /\ new[Len(new)] = a
              /\ \A i \in 1..Len(old) : new[i] = old[i]
      /\ (Completed("removeAccount") /\ ~Includes(old, a)) => new = old
      /\ Completed("removeAccount")
           => /\ Elements(new) = Elements(old) \ {a}
              /\ Len(new) = Len(old) - Occurrences(old, a)
              /\ \A x, y \in Elements(new) : Before(new, x, y) <=> Before(old, x, y)

\* the middle account of a list of three was removed
C29_Witness ==
  /\ Completed("removeAccount")
  /\ Len(getLinkedAccounts(pre, call.service)) = 3
  /\ getLinkedAccounts(pre, call.service)[2] = call.accountId
  /\ Len(getLinkedAccounts(store, call.service)) = 2

\* an account was appended to a list of two
C29_WitnessAppend ==
  /\ Completed("addAccount")
  /\ Len(getLinkedAccounts(pre, call.service)) = 2
  /\ Len(getLinkedAccounts(store, call.service)) = 3



----------------------------------------------------------------------------
(* C30: setActiveAccount (Spec) *)

\* C30: setActiveAccount(service, accountId) writes the pointer whether or not
\* accountId is linked, and setActiveAccount(service, null) deletes it: a
\* following getActiveAccount returns the value written, or absent, and the
\* linked list, the metadata and the credential records are unchanged.
C30_SetActiveAccount ==
  Completed("setActiveAccount") =>
    /\ getActiveAccount(store, call.service)
         = (IF call.accountId = Null THEN Undefined ELSE call.accountId)
    /\ RecordKeys(store) = RecordKeys(pre)
    /\ \A k \in RecordKeys(pre) : store[k] = pre[k]

\* the pointer was set to an account that is not linked, in a store that holds
\* a list, a metadata record and a credential
C30_Witness ==
  /\ Completed("setActiveAccount")
  /\ call.accountId # Null
  /\ getLinkedAccounts(store, call.service) # << >>
  /\ ~Includes(getLinkedAccounts(store, call.service), call.accountId)
  /\ getActiveAccount(pre, call.service) \notin {Undefined, call.accountId}
  /\ \E a \in ToolAccounts :
       /\ getAccountInfo(store, a, call.service).present
       /\ getToken(store, a, call.service) # Undefined

\* the pointer was deleted by setActiveAccount(service, null)
C30_WitnessNull ==
  /\ Completed("setActiveAccount")
  /\ call.accountId = Null
  /\ getActiveAccount(pre, call.service) # Undefined
  /\ getLinkedAccounts(store, call.service) # << >>



----------------------------------------------------------------------------
(* loopback.ts: account-remove on a directory of three accounts *)

NextRemoveTool ==
  \/ \E a \in Accounts : CallAddAccount(ToolService, a)
  \/ \E a \in Accounts \cup {Null} : CallSetActiveAccount(ToolService, a)
  \/ \E ref \in Accounts \cup Aliases : CallAccountRemove(ref)
  \/ AddAccountStep
  \/ RemoveAccountStep
  \/ FindStep
  \/ AccountRemoveStep

SpecRemoveTool == Init /\ [][NextRemoveTool]_vars

(* C31: the result of account-remove (SpecRemoveTool, SpecTools) *)

\* C31: after account-remove succeeds for a reference that resolves to account
\* x, x is not in the linked list, result.removed is x, result.remainingAccounts
\* is the length of the linked list after the call, and when x was the active
\* account and accounts remain, result.newActiveAccount is the first remaining
\* account in list order and is the active pointer.
C31_AccountRemoveResult ==
  Completed("account-remove") =>
    LET x == ResolvesTo(pre, call.service, call.ref)
        linked == getLinkedAccounts(store, call.service)
    IN  /\ x # Null
        /\ ~Includes(linked, x)
        /\ result.removed = x
        /\ result.remainingAccounts = Len(linked)
        /\ (getActiveAccount(pre, call.service) = x /\ linked # << >>)
             => /\ result.newActiveAccount = linked[1]
                /\ result.newActiveAccount = getActiveAccount(store, call.service)

\* the active account, first of a list of three, was removed: two accounts
\* remain and the second of the old list is the new active account
C31_Witness ==
  /\ Completed("account-remove")
  /\ Len(getLinkedAccounts(pre, call.service)) = 3
  /\ getLinkedAccounts(pre, call.service)[1] = result.removed
  /\ getActiveAccount(pre, call.service) = result.removed
  /\ result.remainingAccounts = 2
  /\ result.newActiveAccount = getLinkedAccounts(pre, call.service)[2]

\* the active account was removed by its alias and another account remains
C31_WitnessAlias ==
  /\ Completed("account-remove")
  /\ call.ref \notin ToolAccounts
  /\ getActiveAccount(pre, call.service) = result.removed
  /\ result.newActiveAccount = getActiveAccount(store, call.service)



----------------------------------------------------------------------------
(* key-utils.ts: two calls of the key constructors *)

\* the accepted call that returned codec.key
KeyCall ==
  [fn |-> codec.fn, type |-> codec.type, accountId |-> codec.accountId,
   service |-> codec.service, key |-> codec.key]

\* a second createAccountKey after a call that returned a key
CallCreateAccountKeyAgain(type, accountId, service) ==
  /\ codec.phase = "key"
  /\ codec.prev = NoKeyCall
  /\ codec' = IF validateKeyParams(<<accountId, service>>)
                THEN [NoCodec EXCEPT !.phase = "key", !.fn = "createAccountKey",
                                     !.type = type,
                                     !.accountId = accountId, !.service = service,
                                     !.key = createAccountKey(type, accountId, service),
                                     !.prev = KeyCall]
                ELSE [NoCodec EXCEPT !.phase = "invalid", !.fn = "createAccountKey",
                                     !.type = type,
                                     !.accountId = accountId, !.service = service,
                                     !.prev = KeyCall]
  /\ UNCHANGED <<store, pc, call, loc, pre, result, hist, misuse, again>>
  /\ UNCHANGED <<parked, lastWriter, switched>>

\* a second createServiceKey after a call that returned a key
CallCreateServiceKeyAgain(type, service) ==
  /\ codec.phase = "key"
  /\ codec.prev = NoKeyCall
  /\ codec' = IF validateKeyParams(<<service>>)
                THEN [NoCodec EXCEPT !.phase = "key", !.fn = "createServiceKey",
                                     !.type = type, !.service = service,
                                     !.key = createServiceKey(type, service),
                                     !.prev = KeyCall]
                ELSE [NoCodec EXCEPT !.phase = "invalid", !.fn = "createServiceKey",
                                     !.type = type, !.service = service,
                                     !.prev = KeyCall]
  /\ UNCHANGED <<store, pc, call, loc, pre, result, hist, misuse, again>>
  /\ UNCHANGED <<parked, lastWriter, switched>>

NextKeyPair ==
  \/ \E type \in AccountKeyTypes, accountId \in KeyAccountIds, service \in KeyServices :
       CallCreateAccountKey(type, accountId, service)
  \/ \E type \in ServiceKeyTypes, service \in KeyServices :
       CallCreateServiceKey(type, service)
  \/ \E type \in AccountKeyTypes, accountId \in KeyAccountIds, service \in KeyServices :
       CallCreateAccountKeyAgain(type, accountId, service)
  \/ \E type \in ServiceKeyTypes, service \in KeyServices :
       CallCreateServiceKeyAgain(type, service)

SpecKeyPair == Init /\ [][NextKeyPair]_vars

\* two calls of the key constructors have returned a key
TwoKeys == codec.phase = "key" /\ codec.prev # NoKeyCall

\* C32: key construction is injective: two calls of createAccountKey or
\* createServiceKey that return the same key have the same kind, accountId and
\* service, and a createAccountKey result never equals a createServiceKey
\* result.
C32_KeysInjective ==
  (TwoKeys /\ codec.key = codec.prev.key) =>
    /\ codec.fn = codec.prev.fn
    /\ codec.type = codec.prev.type
    /\ codec.accountId = codec.prev.accountId
    /\ codec.service = codec.prev.service

\* a service key and the account key of the empty accountId for the same
\* service: the keys differ
C32_Witness ==
  /\ TwoKeys
  /\ codec.prev.fn = "createServiceKey"
  /\ codec.fn = "createAccountKey"
  /\ codec.accountId = ""
  /\ codec.service = codec.prev.service
  /\ codec.key # codec.prev.key

\* the same call made twice returns the same key
C32_WitnessSameKey ==
  /\ TwoKeys
  /\ codec.fn = "createAccountKey"
  /\ codec.key = codec.prev.key



----------------------------------------------------------------------------
(* account-utils.ts and loopback.ts: the operations of one service beside the
   records of another *)

\* await store.set(createAccountKey('metadata', params), info)
CallSetAccountInfo(s, a, info) ==
  /\ Begin([NoCall EXCEPT !.name = "setAccountInfo", !.service = s, !.accountId = a])
  /\ store' = setAccountInfo(store, a, s, info)
  /\ pc' = "done"
  /\ loc' = NoLoc
  /\ result' = OkResult
  /\ again' = FALSE
  /\ UNCHANGED misuse

\* a service the tools are not configured with
OtherService == "drive"

\* the account the directory operations are called with
FrameAccounts == {"a@x.com"}

\* the references and aliases the tools are called with
FrameReferences == {Undefined, "a@x.com", "work"}

FrameAliases == {NoAlias, "work"}

NextFrame ==
  \/ \E a \in FrameAccounts : CallAddAccount(OtherService, a)
  \/ \E a \in FrameAccounts : CallRemoveAccount(OtherService, a)
  \/ \E a \in FrameAccounts \cup {Null} : CallSetActiveAccount(OtherService, a)
  \/ \E a \in FrameAccounts, t \in Tokens : CallSetToken(OtherService, a, t)
  \/ \E a \in FrameAccounts : CallSetAccountInfo(OtherService, a, AccountInfo(a, "work", 1))
  \/ \E ref \in FrameReferences, alias \in FrameAliases : CallAccountSwitch(ref, alias)
  \/ \E ref \in FrameReferences \ {Undefined} : CallAccountRemove(ref)
  \/ AddAccountStep
  \/ RemoveAccountStep
  \/ FindStep
  \/ SwitchStep
  \/ AccountRemoveStep

SpecFrame == Init /\ [][NextFrame]_vars



\* the keys of the records of service s: its list, its pointer, and the
\* metadata and the credential of every account under s
ServiceKeys(s) ==
  {createServiceKey(t, s) : t \in ServiceKeyTypes}
    \cup {createAccountKey(t, a, s) : t \in {"token", "metadata"}, a \in Accounts}

\* the records store st holds for service s
RecordsOf(st, s) == [k \in ServiceKeys(s) \cap DOMAIN st |-> st[k]]

\* C33: every directory operation and tool call for service s leaves the
\* linked list, the active pointer, the metadata and the credential records of
\* every other service unchanged, the records of the same accountId under
\* another service included.
C33_OtherServicesUnchanged ==
  /\ DOMAIN store \subseteq UNION {ServiceKeys(s) : s \in Services}
  /\ pc # "idle" =>
       \A s \in Services \ {call.service} : RecordsOf(store, s) = RecordsOf(pre, s)

\* account-remove has removed an account of the tool's service that has a list
\* entry, a pointer, metadata and a credential under the other service
C33_Witness ==
  /\ Completed("account-remove")
  /\ getToken(pre, result.removed, call.service) # Undefined
  /\ getAccountInfo(pre, result.removed, call.service).present
  /\ \E s \in Services \ {call.service} :
       /\ getLinkedAccounts(store, s) = <<result.removed>>
       /\ getActiveAccount(store, s) = result.removed
       /\ getAccountInfo(store, result.removed, s).present
       /\ getToken(store, result.removed, s) # Undefined



----------------------------------------------------------------------------
(* C34: the authorization flow sets no active account (Spec) *)

NoActiveAfterFlow == "OAuth flow completed without setting an active account"

\* the switch failed because no active account was set after the flow
FlowSetNothing ==
  /\ Switching
  /\ pc = "done"
  /\ result.type = "error"
  /\ result.message = NoActiveAfterFlow

----------------------------------------------------------------------------
(* loopback.ts: the account-list tool *)

ListingResult(accounts, total) ==
  [NoResult EXCEPT !.type = "success", !.accounts = accounts, !.totalAccounts = total]

CallAccountList ==
  /\ Begin([NoCall EXCEPT !.name = "account-list", !.service = ToolService])
  /\ pc' = "al_getLinked"
  /\ loc' = [NoLoc EXCEPT !.service = ToolService]
  /\ result' = NoResult
  /\ again' = FALSE
  /\ UNCHANGED <<store, misuse>>

\* const linkedAccounts = await getLinkedAccounts(...); if (linkedAccounts.length === 0) return
AccountListGetLinked ==
  /\ pc = "al_getLinked"
  /\ LET linked == getLinkedAccounts(store, loc.service)
     IN  IF Len(linked) = 0
           THEN Finish(ListingResult(<< >>, 0))
           ELSE /\ pc' = "al_getActive"
                /\ loc' = [loc EXCEPT !.linked = linked]
                /\ UNCHANGED result
  /\ UNCHANGED <<store, call, pre, hist, misuse, again>>
  /\ UNCHANGED <<parked, lastWriter, codec, switched>>

\* const activeAccountId = await getActiveAccount(...); linkedAccounts.map(async (email) => ...)
AccountListGetActive ==
  /\ pc = "al_getActive"
  /\ loc' = [loc EXCEPT
               !.active = getActiveAccount(store, loc.service),
               !.remaining = 1..Len(loc.linked),
               !.entries = [i \in 1..Len(loc.linked) |->
                              [email |-> loc.linked[i], alias |-> NoAlias,
                               isActive |-> FALSE]]]
  /\ pc' = "al_getInfo"
  /\ UNCHANGED <<store, call, pre, result, hist, misuse, again>>
  /\ UNCHANGED <<parked, lastWriter, codec, switched>>

\* an entry that is active when it is the first of the list
IsActiveFirst(linked, i, active) == i = 1

\* isActive: email === activeAccountId
IsActive(linked, i, active) == linked[i] = active

\* one of the getAccountInfo calls of Promise.all resolves, in any order:
\* { email, alias: accountInfo?.alias, isActive: email === activeAccountId }
AccountListGetInfo ==
  /\ pc = "al_getInfo"
  /\ \E i \in loc.remaining :
       LET email == loc.linked[i]
           accountInfo == getAccountInfo(store, email, loc.service)
       IN  loc' = [loc EXCEPT
                     !.remaining = @ \ {i},
                     !.entries[i] = [email |-> email, alias |-> accountInfo.alias,
                                     isActive |-> IsActive(loc.linked, i, loc.active)]]
  /\ UNCHANGED <<store, pc, call, pre, result, hist, misuse, again>>
  /\ UNCHANGED <<parked, lastWriter, codec, switched>>

\* Promise.all resolves: return { accounts, totalAccounts: linkedAccounts.length }
AccountListReturn ==
  /\ pc = "al_getInfo"
  /\ loc.remaining = {}
  /\ Finish(ListingResult(loc.entries, Len(loc.linked)))
  /\ UNCHANGED <<store, call, pre, hist, misuse, again>>
  /\ UNCHANGED <<parked, lastWriter, codec, switched>>

AccountListStep ==
  \/ AccountListGetLinked
  \/ AccountListGetActive
  \/ AccountListGetInfo
  \/ AccountListReturn

\* the aliases the metadata records are written with
ListAliases == {NoAlias, "work"}

NextAccountList ==
  \/ \E a \in Accounts : CallAddAccount(ToolService, a)
  \/ \E a \in Accounts : CallRemoveAccount(ToolService, a)
  \/ \E a \in Accounts \cup {Null} : CallSetActiveAccount(ToolService, a)
  \/ \E a \in Accounts, alias \in ListAliases :
       CallSetAccountInfo(ToolService, a, AccountInfo(a, alias, 1))
  \/ CallAccountList
  \/ AddAccountStep
  \/ RemoveAccountStep
  \/ AccountListStep

SpecAccountList == Init /\ [][NextAccountList]_vars

\* C35: account-list returns one entry per linked account in list order, each
\* with the alias held in its metadata, and isActive exactly on the entries
\* equal to the active pointer, so at most one entry is active; with no linked
\* accounts it returns an empty list with totalAccounts = 0, and no error.
C35_AccountList ==
  (call.name = "account-list" /\ pc = "done") =>
    LET linked == getLinkedAccounts(store, call.service)
        active == getActiveAccount(store, call.service)
        accounts == result.accounts
    IN  /\ result.type = "success"
        /\ Len(accounts) = Len(linked)
        /\ result.totalAccounts = Len(linked)
        /\ \A i \in 1..Len(linked) :
             /\ accounts[i].email = linked[i]
             /\ accounts[i].alias = getAccountInfo(store, linked[i], call.service).alias
             /\ accounts[i].isActive <=> (linked[i] = active)
        /\ Cardinality({i \in 1..Len(accounts) : accounts[i].isActive}) <= 1

\* three accounts are listed, the second is the active one and has an alias,
\* another has no metadata
C35_Witness ==
  /\ Completed("account-list")
  /\ Len(result.accounts) = 3
  /\ result.accounts[2].isActive
  /\ result.accounts[2].alias = "work"
  /\ ~result.accounts[1].isActive
  /\ \E i \in {1, 3} :
       ~getAccountInfo(store, result.accounts[i].email, call.service).present

\* no account is linked: the listing is empty and is not an error
C35_WitnessEmpty ==
  /\ Completed("account-list")
  /\ result.accounts = << >>
  /\ result.totalAccounts = 0
  /\ getActiveAccount(store, call.service) # Undefined



----------------------------------------------------------------------------
(* me.ts: the account-me tool in a mode that uses the store *)

\* formatDuration(ms): "30s", "45m", "2h", "2h 15m"
formatDuration(ms) ==
  LET totalSeconds == ms \div 1000
      minutes == totalSeconds \div 60
      hours == minutes \div 60
      remainingMinutes == minutes % 60
  IN  IF totalSeconds < 60 THEN ToString(totalSeconds) \o "s"
      ELSE IF minutes < 60 THEN ToString(minutes) \o "m"
      ELSE IF remainingMinutes = 0 THEN ToString(hours) \o "h"
      ELSE ToString(hours) \o "h " \o ToString(remainingMinutes) \o "m"

\* a CachedToken: expiresAt?: number, in epoch milliseconds
CachedToken(hasExpiresAt, expiresAt) ==
  [hasExpiresAt |-> hasExpiresAt, expiresAt |-> expiresAt]

\* the instants a credential expires at: around the clock readings, and
\* seconds, minutes and hours after them
ExpiresAts ==
  (0..MaxTime) \cup {MaxTime + 30000, MaxTime + 2700000, MaxTime + 7200000,
                     MaxTime + 8100000}

CachedTokens ==
  {CachedToken(FALSE, 0)} \cup {CachedToken(TRUE, e) : e \in ExpiresAts}

MeResult(email, alias, sessionExpiresIn) ==
  [NoResult EXCEPT !.type = "success", !.email = email, !.alias = alias,
                   !.sessionExpiresIn = sessionExpiresIn]

NoActiveAccountFound == "No active account found"

CallAccountMe ==
  /\ Begin([NoCall EXCEPT !.name = "account-me", !.service = ToolService])
  /\ pc' = "me_getActive"
  /\ loc' = [NoLoc EXCEPT !.service = ToolService]
  /\ result' = NoResult
  /\ again' = FALSE
  /\ UNCHANGED <<store, misuse>>

\* const activeAccountId = await getActiveAccount(...); if (!activeAccountId) throw
AccountMeGetActive ==
  /\ pc = "me_getActive"
  /\ LET activeAccountId == getActiveAccount(store, loc.service)
     IN  IF Falsy(activeAccountId)
           THEN Throw(NoActiveAccountFound)
           ELSE /\ pc' = "me_getInfo"
                /\ loc' = [loc EXCEPT !.active = activeAccountId]
                /\ UNCHANGED result
  /\ UNCHANGED <<store, call, pre, hist, misuse, again>>
  /\ UNCHANGED <<parked, lastWriter, codec, switched>>

\* const accountInfo = await getAccountInfo(...); email = accountInfo?.email ?? activeAccountId
AccountMeGetInfo ==
  /\ pc = "me_getInfo"
  /\ LET accountInfo == getAccountInfo(store, loc.active, loc.service)
     IN  loc' = [loc EXCEPT
                   !.info = accountInfo,
                   !.email = IF accountInfo.present THEN accountInfo.email ELSE loc.active]
  /\ pc' = "me_getToken"
  /\ UNCHANGED <<store, call, pre, result, hist, misuse, again>>
  /\ UNCHANGED <<parked, lastWriter, codec, switched>>

\* a test that takes every credential to have an expiry
HasExpiresAtAlways(st, accountId, service) ==
  Has(st, createAccountKey("token", accountId, service))

\* if (token?.expiresAt): a number is truthy when it is not 0
HasExpiresAt(st, accountId, service) ==
  LET key == createAccountKey("token", accountId, service)
  IN  Has(st, key) /\ st[key].hasExpiresAt /\ st[key].expiresAt # 0

\* token.expiresAt > now ? formatDuration(token.expiresAt - now) : 'expired'
SessionExpiresIn(expiresAt, now) ==
  IF expiresAt > now THEN formatDuration(expiresAt - now) ELSE "expired"

\* const token = await getToken(...); sessionExpiresIn; return result
AccountMeGetToken ==
  /\ pc = "me_getToken"
  /\ LET alias == IF ~Falsy(loc.info.alias) THEN loc.info.alias ELSE Undefined
     IN  IF HasExpiresAt(store, loc.active, loc.service)
           THEN \E now \in Times :
                  /\ hist' = [hist EXCEPT !.now = now]
                  /\ Finish(MeResult(loc.email, alias,
                              SessionExpiresIn(getToken(store, loc.active, loc.service).expiresAt,
                                               now)))
           ELSE /\ Finish(MeResult(loc.email, alias, "never"))
                /\ UNCHANGED hist
  /\ UNCHANGED <<store, call, pre, misuse, again>>
  /\ UNCHANGED <<parked, lastWriter, codec, switched>>

AccountMeStep ==
  \/ AccountMeGetActive
  \/ AccountMeGetInfo
  \/ AccountMeGetToken

NextMe ==
  \/ \E a \in ToolAccounts \cup {Null} : CallSetActiveAccount(ToolService, a)
  \/ \E a \in ToolAccounts : CallSetAccountInfo(ToolService, a, AccountInfo(a, "work", 1))
  \/ \E a \in ToolAccounts, t \in CachedTokens : CallSetToken(ToolService, a, t)
  \/ CallAccountMe
  \/ AccountMeStep

SpecMe == Init /\ [][NextMe]_vars



\* account-me has returned or failed
MeDone == call.name = "account-me" /\ pc = "done"

\* the credential of the active account has the expiresAt property
ActiveHasExpiresAt ==
  LET key == createAccountKey("token", getActiveAccount(store, call.service), call.service)
  IN  Has(store, key) /\ store[key].hasExpiresAt

ActiveExpiresAt ==
  store[createAccountKey("token", getActiveAccount(store, call.service), call.service)].expiresAt

\* what the claim has account-me report for the store and the clock reading
Reported ==
  IF ~ActiveHasExpiresAt THEN result.sessionExpiresIn = "never"
  ELSE IF ActiveExpiresAt = 0 \/ ActiveExpiresAt <= hist.now
         THEN result.sessionExpiresIn = "expired"
         ELSE /\ result.sessionExpiresIn = formatDuration(ActiveExpiresAt - hist.now)
              /\ result.sessionExpiresIn \notin {"expired", "never"}

\* C36: account-me in a store-backed mode fails with an error when the service
\* has no active pointer; otherwise it reports for the active account 'expired'
\* when the credential's expiresAt is not later than the current time, the
\* remaining duration when it is later, and 'never' when the credential has no
\* expiresAt or no credential record exists.
C36_AccountMe ==
  MeDone =>
    IF getActiveAccount(store, call.service) = Undefined
      THEN result.type = "error"
      ELSE result.type = "success" /\ Reported

\* the same for credentials whose expiresAt, when they have one, is not 0
C36_AccountMeNonZeroExpiresAt ==
  (MeDone /\ ~(ActiveHasExpiresAt /\ ActiveExpiresAt = 0)) =>
    IF getActiveAccount(store, call.service) = Undefined
      THEN result.type = "error"
      ELSE result.type = "success" /\ Reported



----------------------------------------------------------------------------
(* Every operation and every tool, one call at a time, each store call and the
   authorization flow returning *)

\* the references and the aliases the tools are called with
TermReferences == {Undefined, "a@x.com", "work"}

TermAliases == {NoAlias, "work"}

\* the credential the authorization flow stores
TermTokens == {CachedToken(TRUE, MaxTime)}

\* a store call, or the authorization flow, of the running call returns
TermStep ==
  \/ AddAccountStep
  \/ RemoveAccountStep
  \/ FindStep
  \/ SwitchGetLinked
  \/ SwitchReuse
  \/ SwitchNotFound
  \/ SwitchReuseGetInfo
  \/ SwitchReuseSetInfo
  \/ ReauthRejects
  \/ \E e \in ToolAccounts, t \in TermTokens : ReauthResolves(e, t)
  \/ ReauthSetsNothing
  \/ SwitchGetActive
  \/ SwitchGetInfo
  \/ SwitchSetInfo
  \/ SwitchSetActive
  \/ AccountRemoveStep
  \/ AccountListStep
  \/ AccountMeStep

NextTerm ==
  \/ \E a \in ToolAccounts : CallAddAccount(ToolService, a)
  \/ \E a \in ToolAccounts : CallRemoveAccount(ToolService, a)
  \/ \E a \in ToolAccounts \cup {Null} : CallSetActiveAccount(ToolService, a)
  \/ \E ref \in TermReferences, alias \in TermAliases : CallAccountSwitch(ref, alias)
  \/ \E ref \in TermReferences \ {Undefined} : CallAccountRemove(ref)
  \/ CallAccountList
  \/ CallAccountMe
  \/ TermStep

\* every store call and the authorization flow return: a call that can take a
\* step takes it
SpecTerm == Init /\ [][NextTerm]_vars /\ WF_vars(TermStep)

\* C37: provided every store call and the re-authentication call return, every
\* directory operation and every tool handler completes: a call that has begun
\* returns, after store calls that are never repeated.
C37_EveryCallCompletes == (pc \notin {"idle", "done"}) ~> (pc = "done")

\* account-switch has completed through the alias scan over a list of two, the
\* authorization flow and addAccount
C37_Witness ==
  /\ Completed("account-switch")
  /\ call.ref = "work"
  /\ hist.reauthCalls = 1
  /\ hist.addCalls = 1
  /\ Len(getLinkedAccounts(store, call.service)) = 2

====
